---- MODULE Spec2Model ----
(***************************************************************************)
(* Fetch orchestration and identity resolution of the Daraz harvesters.    *)
(*                                                                         *)
(*   task/1sep/2sep/category_product_fetch.py  paginated listing harvest   *)
(*   task/1sep/2sep/retrieve_category.py       repeated-refresh discovery  *)
(*                                                                         *)
(* Strings whose characters matter (identifier fields, identities) are     *)
(* sequences of one-character strings, so that strip() and split() are     *)
(* computed.  Python lists are sequences, Python dicts are sequences of    *)
(* <<key, value>> pairs in insertion order, Python sets are sets.          *)
(***************************************************************************)
EXTENDS Integers, Sequences, FiniteSets, TLC

\* ------------------------------------------------------------------------
\* Bounds of the model
\* ------------------------------------------------------------------------
MaxFragments == 2
MaxFileLen == 1
MaxPages == 2
MaxRetriesArg == 3
MaxMinNewArg == 2
MaxRefreshesArg == 9

\* ------------------------------------------------------------------------
\* Tunables of category_product_fetch.py
\* ------------------------------------------------------------------------
MAX_RETRIES == 5
MIN_NEW_PER_PAGE == 1
PRODUCTS_PER_PAGE == 40
SAVE_ONLY_UNIQUE == TRUE

\* Tunables of retrieve_category.py
STOP_AFTER_NO_NEW_STREAK == 8

\* ------------------------------------------------------------------------
\* Strings
\* ------------------------------------------------------------------------
IsSpace(c) == c = " "

RECURSIVE LStrip(_)
LStrip(s) == IF s # <<>> /\ IsSpace(Head(s)) THEN LStrip(Tail(s)) ELSE s

RECURSIVE RStrip(_)
RStrip(s) ==
  IF s # <<>> /\ IsSpace(s[Len(s)]) THEN RStrip(SubSeq(s, 1, Len(s) - 1)) ELSE s

\* str.strip()
Strip(s) == RStrip(LStrip(s))

\* str.split(sep, 1)[0]: the part before the first separator, the whole
\* string when there is none
SplitWhole(s, sep) == s

RECURSIVE SplitFirst(_, _)
SplitFirst(s, sep) ==
  IF s = <<>> THEN <<>>
  ELSE IF Head(s) = sep THEN <<>>
  ELSE <<Head(s)>> \o SplitFirst(Tail(s), sep)

\* ------------------------------------------------------------------------
\* Records as the extraction collaborator produces them.  A field value is
\* a JSON string, null/absent, or a truthy non-string (a number).  An item
\* that is not a JSON object has mapping = FALSE.
\* ------------------------------------------------------------------------
StrV(s) == [kind |-> "str", s |-> s]
NoneV == [kind |-> "none", s |-> <<>>]
NumV == [kind |-> "num", s |-> <<>>]
\* a falsy non-string (0, [], {}) and a truthy one that is not a number
ZeroV == [kind |-> "zero", s |-> <<>>]
ListV == [kind |-> "list", s |-> <<>>]

Rec(i, k) == [mapping |-> TRUE, data_item_id |-> i, data_sku_simple |-> k]

rA1 == Rec(StrV(<<"a">>), NoneV)
rA2 == Rec(StrV(<<" ">>), StrV(<<"a", "_", "x">>))
rB == Rec(StrV(<<" ", "b", " ">>), StrV(<<"c", "_", "y">>))
rNoId == Rec(NoneV, StrV(<<" ", "_", "x">>))
rNum == Rec(NumV, StrV(<<"a">>))
NonMapping == [mapping |-> FALSE, data_item_id |-> NoneV, data_sku_simple |-> NoneV]

\* what one extracted payload can hold
Items == {rA1, rA2, rB, rNoId, rNum, NonMapping}

\* the marker of a raised exception where a string is expected
Raised == <<"raise">>

\* (value or "") followed by .strip(); a truthy non-string has no strip()
OrEmptyStrip(v) ==
  IF v.kind \in {"none", "zero"} THEN <<>>
  ELSE IF v.kind = "str" THEN Strip(v.s)
  ELSE Raised

get_product_id(product) ==
  IF ~product.mapping THEN Raised
  ELSE LET pid == OrEmptyStrip(product.data_item_id)
       IN IF pid = Raised THEN Raised
          ELSE IF pid # <<>> THEN pid
          ELSE LET sku == OrEmptyStrip(product.data_sku_simple)
               IN IF sku = Raised THEN Raised
                  ELSE IF sku # <<>> THEN Strip(SplitFirst(sku, "_"))
                  ELSE <<>>

\* ids = [get_product_id(p) for p in ... if get_product_id(p)]
RECURSIVE IdsOf(_)
IdsOf(ps) ==
  IF ps = <<>> THEN <<>>
  ELSE IF get_product_id(Head(ps)) = <<>> THEN IdsOf(Tail(ps))
  ELSE <<get_product_id(Head(ps))>> \o IdsOf(Tail(ps))

Range(s) == {s[i] : i \in 1..Len(s)}

RECURSIVE DedupeLoop(_, _, _)
DedupeLoop(ps, seen, deduped) ==
  IF ps = <<>> THEN [raised |-> FALSE, list |-> deduped]
  ELSE LET pid == get_product_id(Head(ps))
       IN IF pid = Raised THEN [raised |-> TRUE, list |-> <<>>]
          ELSE IF pid = <<>> \/ pid \in seen THEN DedupeLoop(Tail(ps), seen, deduped)
          ELSE DedupeLoop(Tail(ps), seen \cup {pid}, Append(deduped, Head(ps)))

\* dedupe_products without the set of seen identities
dedupe_products_keep_repeats(products) ==
  IF \E i \in 1..Len(products) : get_product_id(products[i]) = Raised
    THEN [raised |-> TRUE, list |-> <<>>]
    ELSE [raised |-> FALSE,
          list |-> SelectSeq(products, LAMBDA p : get_product_id(p) # <<>>)]

dedupe_products(products) == DedupeLoop(products, {}, <<>>)

\* ------------------------------------------------------------------------
\* Block detection.  Markup is a sequence of words; lower() is computed
\* word by word.
\* ------------------------------------------------------------------------
Lower(w) ==
  CASE w = "Access" -> "access"
    [] w = "Denied" -> "denied"
    [] w = "CAPTCHA" -> "captcha"
    [] OTHER -> w

LowerAll(ws) == [i \in 1..Len(ws) |-> Lower(ws[i])]

BLOCK_KEYWORDS == {<<"captcha">>, <<"access", "denied">>, <<"forbidden">>}

Contains(h, k) ==
  \E i \in 1..Len(h) : i + Len(k) - 1 <= Len(h) /\ SubSeq(h, i, i + Len(k) - 1) = k

looks_blocked(html) ==
  IF html = <<>> THEN FALSE
  ELSE \E k \in BLOCK_KEYWORDS : Contains(LowerAll(html), k)

Htmls == {<<>>, <<"products">>, <<"Access", "Denied">>}


\* ------------------------------------------------------------------------
\* What the fetch collaborator returns for one attempt: it raises, or it
\* returns result fragments {success, html, extracted_content}.
\* ------------------------------------------------------------------------
RECURSIVE SeqsUpTo(_, _)
SeqsUpTo(S, n) ==
  IF n = 0 THEN {<<>>}
  ELSE LET shorter == SeqsUpTo(S, n - 1)
       IN shorter \cup {Append(q, x) : q \in {t \in shorter : Len(t) = n - 1}, x \in S}

\* the JSON lists a payload can be
PayloadLists ==
  {<<>>, <<rA1, rB>>, <<rA2, rA1>>, <<rB, rB>>, <<rNoId, rB>>, <<rA1, rNum>>,
   <<NonMapping, rB>>}

Payloads ==
  {[kind |-> "invalid", items |-> <<>>]}
    \cup {[kind |-> "single", items |-> <<x>>] : x \in Items}
    \cup {[kind |-> "list", items |-> q] : q \in PayloadLists}

\* a fragment the collaborator marks as failed still carries markup and a
\* payload
FailedPayloads == {[kind |-> "single", items |-> <<rB>>]}

Fragments ==
  {[success |-> TRUE, html |-> h, extracted_content |-> c] : h \in Htmls, c \in Payloads}
    \cup {[success |-> FALSE, html |-> h, extracted_content |-> c] :
            h \in Htmls, c \in FailedPayloads}

CrawlResponses ==
  {[raised |-> TRUE, results |-> <<>>]}
    \cup {[raised |-> FALSE, results |-> q] : q \in SeqsUpTo(Fragments, MaxFragments)}

\* the loop over the result fragments of crawl_once: st is
\* [agg |-> page_products_aggregated, blocked |-> blocked_detected]
RECURSIVE CrawlLoop(_, _)
CrawlLoop(results, st) ==
  IF results = <<>> THEN st
  ELSE LET result == Head(results)
           c == result.extracted_content
       IN IF ~result.success THEN CrawlLoop(Tail(results), st)
          ELSE CrawlLoop(Tail(results),
                 [agg |-> IF c.kind = "invalid" THEN st.agg ELSE st.agg \o c.items,
                  blocked |-> st.blocked \/ looks_blocked(result.html)])

\* what one call of crawl_once did: how it ended, what it returned, and
\* whether blocked_detected was set when it ended
CrawlOutcome(status, products, blocked) ==
  [status |-> status, products |-> products,
   ids |-> IF status = "ok" THEN IdsOf(products) ELSE <<>>,
   blocked |-> blocked]

crawl_once(resp) ==
  IF resp.raised THEN CrawlOutcome("Exception", <<>>, FALSE)
  ELSE LET st == CrawlLoop(resp.results, [agg |-> <<>>, blocked |-> FALSE])
       IN IF st.blocked /\ st.agg = <<>>
            THEN CrawlOutcome("BlockedError", <<>>, TRUE)
          ELSE LET d == dedupe_products(st.agg)
               IN IF d.raised
                    THEN CrawlOutcome("Exception", <<>>, st.blocked)
                    ELSE CrawlOutcome("ok", d.list, st.blocked)

\* everything one attempt can produce: the image of crawl_once over the
\* collaborator's responses
CrawlOutcomes == {crawl_once(resp) : resp \in CrawlResponses}

NoOutcome == CrawlOutcome("none", <<>>, FALSE)

\* ------------------------------------------------------------------------
\* Python dicts: <<key, value>> pairs in insertion order
\* ------------------------------------------------------------------------
DictKeys(d) == {d[i][1] : i \in 1..Len(d)}

DictValues(d) == [i \in 1..Len(d) |-> d[i][2]]

DictGet(d, k) == LET i == CHOOSE j \in 1..Len(d) : d[j][1] = k IN d[i][2]

DictSetAlone(d, k, v) == <<<<k, v>>>>

DictSet(d, k, v) ==
  IF k \in DictKeys(d)
    THEN [i \in 1..Len(d) |-> IF d[i][1] = k THEN <<k, v>> ELSE d[i]]
    ELSE Append(d, <<k, v>>)

\* ------------------------------------------------------------------------
\* Durable storage.  A path is <<name, number, "final" | "tmp">>; a file is
\* absent, a complete JSON list or object, or a partly written file.
\* ------------------------------------------------------------------------
OUTPUT_FILE == <<"products", 0, "final">>
PAGES_INDEX_FILE == <<"pages_index", 0, "final">>
PageFile(k) == <<"page", k, "final">>

HarvestPaths == {OUTPUT_FILE, PAGES_INDEX_FILE} \cup {PageFile(k) : k \in 1..MaxPages}

CATEGORIES_FILE == <<"categories", 0, "final">>
RefreshFile(k) == <<"refresh", k, "final">>

DiscoveryPaths == {CATEGORIES_FILE} \cup {RefreshFile(k) : k \in 1..MaxRefreshesArg}

FinalPaths == HarvestPaths \cup DiscoveryPaths

Paths == FinalPaths \cup {<<p[1], p[2], "tmp">> : p \in FinalPaths}

SamePath(path) == path

TmpOf(path) == <<path[1], path[2], "tmp">>

Absent == [kind |-> "absent", data |-> <<>>]
Partial == [kind |-> "partial", data |-> <<>>]
JsonList(l) == [kind |-> "list", data |-> l]
JsonObject(o) == [kind |-> "object", data |-> o]

\* load_json_if_exists: the parsed content, the default when the file is
\* absent; json.load raises on a file that is not complete JSON
load_json_if_exists(file, default) ==
  IF file.kind = "absent" THEN [raised |-> FALSE, value |-> default]
  ELSE IF file.kind = "partial" THEN [raised |-> TRUE, value |-> default]
  ELSE [raised |-> FALSE, value |-> file]

EmptyIndex == [p \in {} |-> <<>>]

RECURSIVE LoadByIdKeepEmpty(_, _)
LoadByIdKeepEmpty(ps, d) ==
  IF ps = <<>> THEN [raised |-> FALSE, dict |-> d]
  ELSE LET pid == get_product_id(Head(ps))
       IN IF pid = Raised THEN [raised |-> TRUE, dict |-> <<>>]
          ELSE LoadByIdKeepEmpty(Tail(ps), DictSet(d, pid, Head(ps)))

\* {pid: p for p in existing_products_list if (pid := get_product_id(p))}
RECURSIVE LoadById(_, _)
LoadById(ps, d) ==
  IF ps = <<>> THEN [raised |-> FALSE, dict |-> d]
  ELSE LET pid == get_product_id(Head(ps))
       IN IF pid = Raised THEN [raised |-> TRUE, dict |-> <<>>]
          ELSE IF pid = <<>> THEN LoadById(Tail(ps), d)
          ELSE LoadById(Tail(ps), DictSet(d, pid, Head(ps)))

\* the merge loop of the orchestrator over the returned products: st is
\* [known |-> known_ids, byid |-> all_products_by_id, new |-> page_new_products]
RECURSIVE MergeLoop(_, _)
MergeLoop(ps, st) ==
  IF ps = <<>> THEN st
  ELSE LET p == Head(ps)
           pid == get_product_id(p)
       IN IF pid # <<>> /\ pid \notin st.known
            THEN MergeLoop(Tail(ps),
                   [known |-> st.known \cup {pid},
                    byid |-> DictSet(st.byid, pid, p),
                    new |-> Append(st.new, p)])
            ELSE MergeLoop(Tail(ps), st)


\* ------------------------------------------------------------------------
\* Links (retrieve_category.py).  A URL is kept in the parts urlparse
\* splits it into: scheme ("" when the text has none), netloc (the labels
\* of the host, <<>> when the text has no //authority), path (a sequence of
\* "/" and segment names), query (the <<key, value>> pairs parse_qsl
\* yields, in order) and fragment.  A query value is text (a sequence of
\* characters) or the text of a JSON object.
\* ------------------------------------------------------------------------
Url(scheme, netloc, path, query, fragment) ==
  [scheme |-> scheme, netloc |-> netloc, path |-> path, query |-> query,
   fragment |-> fragment]

\* the empty string
EmptyUrl == Url("", <<>>, <<>>, <<>>, "")

Text(s) == [kind |-> "text", s |-> s, obj |-> <<>>]
JsonObj(o) == [kind |-> "json", s |-> <<"{", "}">>, obj |-> o]

\* str.lower() on a host label
LowerLabel(w) ==
  CASE w = "Example" -> "example"
    [] w = "WWW" -> "www"
    [] w = "Daraz" -> "daraz"
    [] OTHER -> w

LowerHost(netloc) == [i \in 1..Len(netloc) |-> LowerLabel(netloc[i])]

\* re.sub(r"/{2,}", "/", path)
RECURSIVE CollapseSlashes(_)
CollapseSlashes(path) ==
  IF Len(path) < 2 THEN path
  ELSE IF path[1] = "/" /\ path[2] = "/" THEN CollapseSlashes(Tail(path))
  ELSE <<Head(path)>> \o CollapseSlashes(Tail(path))

normalize_path(path) ==
  IF path = <<>> THEN <<"/">>
  ELSE LET c == CollapseSlashes(path)
       IN IF Len(c) > 1 /\ c[Len(c)] = "/" THEN SubSeq(c, 1, Len(c) - 1) ELSE c

\* urljoin(base, href) for an absolute base: a reference with a scheme or
\* an authority stands for itself; a rooted path replaces the base path
\* (empty interior segments removed); an empty path keeps the base path and,
\* when the reference has no query, the base query
urljoin(base, href) ==
  IF href.scheme # "" THEN href
  ELSE IF href.netloc # <<>>
    THEN Url(base.scheme, href.netloc, href.path, href.query, href.fragment)
  ELSE IF href.path = <<>>
    THEN Url(base.scheme, base.netloc, base.path,
             IF href.query # <<>> THEN href.query ELSE base.query, href.fragment)
  ELSE Url(base.scheme, base.netloc, CollapseSlashes(href.path), href.query,
           href.fragment)

\* the path urlparse(url) gives: the text from the first ";" of the last
\* path segment on is the params component, not the path
splitparams(path) ==
  LET slashes == {i \in 1..Len(path) : path[i] = "/"}
      last == IF slashes = {} THEN 0 ELSE CHOOSE i \in slashes : \A j \in slashes : j <= i
      semis == {i \in (last + 1)..Len(path) : path[i] = ";"}
  IN IF semis = {} THEN path
     ELSE SubSeq(path, 1, (CHOOSE i \in semis : \A j \in semis : i <= j) - 1)

\* urldefrag(url)[0]
urldefrag(u) == [u EXCEPT !.fragment = ""]

\* str(v).strip() of a query value
ValueStrip(v) == IF v.kind = "text" THEN Strip(v.s) ELSE v.s

WhitelistOrder == <<"cat", "catId", "catIdLv1", "categoryId">>
whitelist == Range(WhitelistOrder)
ParamsKeyOrder == <<"categoryId", "catId", "catIdLv1", "cat">>
generic_paths_and_slug ==
  {<<"/", "catalog">>, <<"/", "search">>, <<"/", "category">>, <<"/", "categories">>,
   <<"/", "sanders">>}

generic_paths == {<<"/", "catalog">>, <<"/", "search">>, <<"/", "category">>,
                  <<"/", "categories">>}

\* the first of the category keys present with a non-empty value in the JSON
\* object of the params parameter; <<>> when there is none
RECURSIVE ScanParams(_, _)
ScanParams(keys, payload) ==
  IF keys = <<>> THEN <<>>
  ELSE IF Head(keys) \in DictKeys(payload)
            /\ Strip(DictGet(payload, Head(keys))) # <<>>
    THEN Strip(DictGet(payload, Head(keys)))
  ELSE ScanParams(Tail(keys), payload)

\* qmap = {k: v for k, v in q_pairs}
RECURSIVE ToDict(_, _)
ToDict(pairs, d) ==
  IF pairs = <<>> THEN d
  ELSE ToDict(Tail(pairs), DictSet(d, Head(pairs)[1], Head(pairs)[2]))

CatFromParams(q_pairs) ==
  LET qmap == ToDict(q_pairs, <<>>)
  IN IF "params" \in DictKeys(qmap) /\ DictGet(qmap, "params").kind = "json"
       THEN ScanParams(ParamsKeyOrder, DictGet(qmap, "params").obj)
       ELSE <<>>

RECURSIVE KeepLoopKeepsBlank(_, _)
KeepLoopKeepsBlank(pairs, keep) ==
  IF pairs = <<>> THEN keep
  ELSE LET k == Head(pairs)[1]
           v == Head(pairs)[2]
       IN IF k \in whitelist
            THEN KeepLoopKeepsBlank(Tail(pairs), DictSet(keep, k, ValueStrip(v)))
            ELSE KeepLoopKeepsBlank(Tail(pairs), keep)

\* the loop that fills keep
RECURSIVE KeepLoop(_, _)
KeepLoop(pairs, keep) ==
  IF pairs = <<>> THEN keep
  ELSE LET k == Head(pairs)[1]
           v == Head(pairs)[2]
       IN IF k \in whitelist /\ ValueStrip(v) # <<>>
            THEN KeepLoop(Tail(pairs), DictSet(keep, k, ValueStrip(v)))
            ELSE KeepLoop(Tail(pairs), keep)

\* sorted(keep.items()): by key
RECURSIVE SortedItems(_, _)
SortedItems(order, keep) ==
  IF order = <<>> THEN <<>>
  ELSE (IF Head(order) \in DictKeys(keep)
          THEN <<<<Head(order), Text(DictGet(keep, Head(order)))>>>>
          ELSE <<>>) \o SortedItems(Tail(order), keep)

\* the dedupe key: host without a leading "www.", path, query
Key(host, path, qs) == [host |-> host, path |-> path, qs |-> qs]
EmptyKey == Key(<<>>, <<>>, <<>>)

InjectFallbackAlways(keep, cat_from_params) ==
  IF cat_from_params # <<>> THEN DictSet(keep, "categoryId", cat_from_params) ELSE keep

\* if cat_from_params and not any(k in keep for k in whitelist):
\*     keep["categoryId"] = cat_from_params
InjectFallback(keep, cat_from_params) ==
  IF cat_from_params # <<>> /\ DictKeys(keep) \cap whitelist = {}
    THEN DictSet(keep, "categoryId", cat_from_params) ELSE keep

StripWww(host_lower) ==
  IF Len(host_lower) > 1 /\ host_lower[1] = "www" THEN Tail(host_lower) ELSE host_lower

canonicalize_category_link(base, href) ==
  IF href = EmptyUrl THEN [canonical_url |-> EmptyUrl, key |-> EmptyKey]
  ELSE LET h == IF href.scheme = "" /\ href.netloc # <<>>
                  THEN [href EXCEPT !.scheme = "https"] ELSE href
           p == urldefrag(urljoin(base, h))
           scheme == IF p.scheme = "" THEN "https" ELSE p.scheme
           host_lower == LowerHost(p.netloc)
           path_norm == normalize_path(splitparams(p.path))
           cat_from_params == CatFromParams(p.query)
           kept == KeepLoop(p.query, <<>>)
           keep == InjectFallback(kept, cat_from_params)
           qs == IF path_norm \in generic_paths /\ keep # <<>>
                   THEN SortedItems(WhitelistOrder, keep) ELSE <<>>
       IN [canonical_url |-> Url(scheme, host_lower, path_norm, qs, ""),
           key |-> Key(StripWww(host_lower), path_norm, qs)]

\* ------------------------------------------------------------------------
\* Category tiles (retrieve_category.py)
\* ------------------------------------------------------------------------
HOMEPAGE_URL == Url("https", <<"www", "daraz", "com", "bd">>, <<"/">>, <<>>, "")

\* f"{home_url}{sep}_v={...}&r={...}"
CacheBusted(home_url) ==
  [home_url EXCEPT !.query = @ \o <<<<"_v", Text(<<"1">>)>>, <<"r", Text(<<"2">>)>>>>]

CatItem(category_name, name, category_link, link) ==
  [mapping |-> TRUE, category_name |-> category_name, name |-> name,
   category_link |-> category_link, link |-> link]

\* /sanders?ref=1
hSanders == Url("", <<>>, <<"/", "sanders">>, <<<<"ref", Text(<<"1">>)>>>>, "")
\* //WWW.Daraz.com.bd//sanders/#top
hSandersAlt == Url("", <<"WWW", "Daraz", "com", "bd">>, <<"/", "/", "sanders", "/">>, <<>>, "top")
\* https://Example.com/catalog?categoryId=10&utm_source=x
hCat10 == Url("https", <<"Example", "com">>, <<"/", "catalog">>,
              <<<<"categoryId", Text(<<"1", "0">>)>>, <<"utm_source", Text(<<"x">>)>>>>, "")
\* http://www.example.com/catalog/?params={"catId": " 10"}
hCat10Alt == Url("http", <<"www", "example", "com">>, <<"/", "catalog", "/">>,
                 <<<<"params", JsonObj(<<<<"catId", <<" ", "1", "0">>>>>>)>>>>, "")
\* https://example.com/catalog?categoryId=20
hCat20 == Url("https", <<"example", "com">>, <<"/", "catalog">>,
              <<<<"categoryId", Text(<<"2", "0">>)>>>>, "")

cSanders == CatItem(StrV(<<"S">>), NoneV, hSanders, EmptyUrl)
cSandersAlt == CatItem(NoneV, StrV(<<" ", "S", "2">>), EmptyUrl, hSandersAlt)
cCat10 == CatItem(StrV(<<"C">>), NoneV, hCat10, EmptyUrl)
cCat10Alt == CatItem(StrV(<<"C", "2">>), NoneV, hCat10Alt, EmptyUrl)
cBlankName == CatItem(StrV(<<" ">>), StrV(<<"N">>), hCat20, EmptyUrl)
cNoLink == CatItem(StrV(<<"N">>), NoneV, EmptyUrl, EmptyUrl)
NonDict == [mapping |-> FALSE, category_name |-> NoneV, name |-> NoneV,
            category_link |-> EmptyUrl, link |-> EmptyUrl]

CatItems == {cSanders, cSandersAlt, cCat10, cCat10Alt, cBlankName, cNoLink}

\* a truthy JSON value
Truthy(v) == v.kind = "num" \/ (v.kind = "str" /\ v.s # <<>>)

CategoryRecord(name, link) == [category_name |-> name, category_link |-> link]

\* the {} that canonical_category_record returns for an unusable item
NoRecord == CategoryRecord(<<>>, EmptyUrl)

canonical_category_record(base, item) ==
  LET name == OrEmptyStrip(IF Truthy(item.category_name) THEN item.category_name
                           ELSE item.name)
      href == IF item.category_link # EmptyUrl THEN item.category_link ELSE item.link
      c == canonicalize_category_link(base, href)
  IN IF name = <<>> \/ c.canonical_url = EmptyUrl \/ c.key = EmptyKey
       THEN [rec |-> NoRecord, key |-> EmptyKey]
       ELSE [rec |-> CategoryRecord(name, c.canonical_url), key |-> c.key]

RECURSIVE DedupeByKeyLoop(_, _, _)
DedupeByKeyLoop(records, seen, result) ==
  IF records = <<>> THEN result
  ELSE LET r == Head(records)
       IN IF r.rec = NoRecord \/ r.key = EmptyKey \/ r.key \in seen
            THEN DedupeByKeyLoop(Tail(records), seen, result)
            ELSE DedupeByKeyLoop(Tail(records), seen \cup {r.key}, Append(result, r.rec))

dedupe_by_key(records) == DedupeByKeyLoop(records, {}, <<>>)

\* the extracted payload of a fragment of the homepage: not JSON, a JSON
\* list, one JSON object, an object that wraps the list under "items", or a
\* JSON scalar
\* the JSON lists a payload can be or wrap
CatPayloadLists ==
  {<<>>, <<cSanders, cCat10Alt>>, <<cCat10, cCat10Alt>>, <<cCat10, cCat10>>,
   <<NonDict, cSandersAlt>>, <<cBlankName, cNoLink>>}

CatPayloads ==
  {[kind |-> "invalid", items |-> <<>>], [kind |-> "scalar", items |-> <<>>]}
    \cup {[kind |-> "single", items |-> <<x>>] : x \in CatItems}
    \cup {[kind |-> k, items |-> q] : k \in {"list", "wrapped"}, q \in CatPayloadLists}

CatFragments ==
  {[success |-> TRUE, extracted_content |-> c] : c \in CatPayloads}
    \cup {[success |-> FALSE, extracted_content |-> [kind |-> "single", items |-> <<cCat10>>]]}

CatResponses ==
  {[raised |-> TRUE, results |-> <<>>]}
    \cup {[raised |-> FALSE, results |-> q] : q \in SeqsUpTo(CatFragments, MaxFragments)}

coerce_items(parsed) ==
  IF parsed.kind \in {"list", "wrapped"}
    THEN SelectSeq(parsed.items, LAMBDA x : x.mapping)
  ELSE IF parsed.kind = "single" THEN parsed.items
  ELSE <<>>

\* for it in items: rec, key = canonical_category_record(base, it) ...
RECURSIVE ItemsLoop(_, _, _)
ItemsLoop(base, items, recs_with_keys) ==
  IF items = <<>> THEN recs_with_keys
  ELSE LET r == canonical_category_record(base, Head(items))
       IN ItemsLoop(base, Tail(items),
                    IF r.rec # NoRecord /\ r.key # EmptyKey
                      THEN Append(recs_with_keys, r) ELSE recs_with_keys)

RECURSIVE CatLoop(_, _, _)
CatLoop(url, results, recs_with_keys) ==
  IF results = <<>> THEN recs_with_keys
  ELSE LET res == Head(results)
       IN IF ~res.success \/ res.extracted_content.kind = "invalid"
            THEN CatLoop(url, Tail(results), recs_with_keys)
            ELSE CatLoop(url, Tail(results),
                         ItemsLoop(url, coerce_items(res.extracted_content), recs_with_keys))

crawl_categories_once(resp, url) ==
  IF resp.raised THEN [raised |-> TRUE, items |-> <<>>]
  ELSE [raised |-> FALSE, items |-> dedupe_by_key(CatLoop(url, resp.results, <<>>))]

\* everything one refresh can produce
CategoryOutcomes ==
  {crawl_categories_once(resp, CacheBusted(HOMEPAGE_URL)) : resp \in CatResponses}

\* the loop that rebuilds known from the records of categories.json
RECURSIVE LoadKnown(_, _, _)
LoadKnown(home_url, existing, kn) ==
  IF existing = <<>> THEN kn
  ELSE LET rec == Head(existing)
           link == rec.category_link
           name == Strip(rec.category_name)
           c == canonicalize_category_link(home_url, link)
       IN IF link = EmptyUrl \/ name = <<>> THEN LoadKnown(home_url, Tail(existing), kn)
          ELSE IF c.canonical_url # EmptyUrl /\ c.key # EmptyKey
                    /\ c.key \notin DictKeys(kn)
            THEN LoadKnown(home_url, Tail(existing),
                           DictSet(kn, c.key, CategoryRecord(name, c.canonical_url)))
          ELSE LoadKnown(home_url, Tail(existing), kn)

\* the fresh loop without the membership test: a key sighted again takes the
\* new record
RECURSIVE FreshLoopOverwrites(_, _, _)
FreshLoopOverwrites(home_url, items, st) ==
  IF items = <<>> THEN st
  ELSE LET it == Head(items)
           c == canonicalize_category_link(home_url, it.category_link)
           rec == CategoryRecord(it.category_name, c.canonical_url)
       IN FreshLoopOverwrites(home_url, Tail(items),
                              [known |-> DictSet(st.known, c.key, rec),
                               fresh |-> IF c.key \notin DictKeys(st.known)
                                           THEN Append(st.fresh, rec) ELSE st.fresh])

\* the loop of a refresh that adds the unknown items to known: st is
\* [known |-> known, fresh |-> fresh]
RECURSIVE FreshLoop(_, _, _)
FreshLoop(home_url, items, st) ==
  IF items = <<>> THEN st
  ELSE LET it == Head(items)
           c == canonicalize_category_link(home_url, it.category_link)
           rec == CategoryRecord(it.category_name, c.canonical_url)
       IN IF c.key \notin DictKeys(st.known)
            THEN FreshLoop(home_url, Tail(items),
                           [known |-> DictSet(st.known, c.key, rec),
                            fresh |-> Append(st.fresh, rec)])
            ELSE FreshLoop(home_url, Tail(items), st)

\* ------------------------------------------------------------------------
\* State
\* ------------------------------------------------------------------------
VARIABLES
  flow,               \* "engine": one call of fetch_until_new; "harvest": a run
  pc,                 \* position of the single thread of control
  fs,                 \* durable storage: path -> file
  aw,                 \* the atomic_write_json call in progress
  all_products_by_id, \* RecordStore
  known_ids,          \* IdentitySet
  pages_index,        \* PageIndex
  total_new_added,
  total_pages,
  page_idx,
  page_new_products,
  max_retries,        \* arguments and locals of fetch_until_new
  min_new,
  attempt,
  products,
  ids,
  bound,              \* products, ids have been assigned in this call
  new_ids,
  out,                \* what crawl_once did in the latest attempt
  fetches,            \* collaborator calls made by this call of fetch_until_new
  cooldown,           \* seconds of the block cooldown being slept, 0 outside it
  exit,               \* how fetch_until_new ended: "accept", "exhaust", "raise"
  ret,                \* the tuple fetch_until_new returned
  persisted,          \* keys of the RecordStore last renamed into OUTPUT_FILE
  outcomes,           \* what one attempt can produce (CrawlOutcomes, never changes)
  known,              \* CategoryStore
  no_new_streak,
  new_total,
  refreshes,          \* argument of collect_categories_multiple_refreshes
  fresh,
  crawl_failed,       \* the except branch of the last refresh was taken
  cat_outcomes,       \* what one refresh can produce (CategoryOutcomes, never changes)
  link,               \* the category URL of the run
  urls,               \* the page URLs built from the plan
  plan_resp,          \* the first-page response, when detect_total_pages runs alone
  canon,              \* a link canonicalized on its own: base, href, the two results
  resolver,           \* a record resolved on its own: product, the ids of two calls
  crawl               \* a response crawled on its own: resp, the outcome of crawl_once

storeVars == <<all_products_by_id, known_ids, pages_index, total_new_added,
               total_pages, page_idx, page_new_products>>

engineVars == <<max_retries, min_new, attempt, products, ids, bound, new_ids,
                out, fetches, cooldown, exit, ret>>

discVars == <<known, no_new_streak, new_total, refreshes, fresh, crawl_failed, cat_outcomes>>

planVars == <<link, urls, plan_resp>>

pureVars == <<canon, resolver, crawl>>

vars == <<flow, pc, fs, aw, storeVars, engineVars, persisted, outcomes, discVars, planVars,
          pureVars>>

NoResponse == [raised |-> FALSE, results |-> <<>>]

NoCanon == <<>>

NoCall == <<>>

\* A URL for set_query_param: base is scheme, netloc, path, params, which it
\* copies; query is the list of (key, value) pairs parse_qsl returns
PageUrl(base, query) == [base |-> base, query |-> query]

\* the category URL main() passes
LINK == PageUrl("https://www.daraz.com.bd/hoses-pipes/", <<>>)

NoWrite == [path |-> <<"none", 0, "final">>, file |-> Absent, step |-> "idle", cont |-> "idle"]

NoRet == [products |-> <<>>, ids |-> <<>>, attempts_used |-> 0]

\* the arguments and locals of fetch_until_new, a the value of attempt
EngineLocals(mr, mn, a) ==
  /\ max_retries' = mr
  /\ min_new' = mn
  /\ attempt' = a
  /\ products' = <<>>
  /\ ids' = <<>>
  /\ bound' = FALSE
  /\ new_ids' = <<>>
  /\ out' = NoOutcome
  /\ fetches' = 0
  /\ cooldown' = 0
  /\ exit' = "none"
  /\ ret' = NoRet

\* ------------------------------------------------------------------------
\* Initial states
\* ------------------------------------------------------------------------
InitialProductFiles ==
  {Absent, JsonObject(<<>>)} \cup {JsonList(q) : q \in SeqsUpTo(Items, MaxFileLen)}

\* the pages index a run left beside the products file it wrote
InitialIndexFile(f) ==
  IF f = JsonList(<<rA1>>) THEN JsonObject(1 :> <<<<"a">>>>) ELSE Absent

InitialFs ==
  {[p \in Paths |->
      IF p = OUTPUT_FILE THEN f
      ELSE IF p = PAGES_INDEX_FILE THEN InitialIndexFile(f)
      ELSE Absent] : f \in InitialProductFiles}

InitMemory ==
  /\ all_products_by_id = <<>>
  /\ known_ids = {}
  /\ pages_index = EmptyIndex
  /\ total_new_added = 0
  /\ total_pages = 0
  /\ page_idx = 0
  /\ page_new_products = <<>>
  /\ max_retries = 0
  /\ min_new = 0
  /\ attempt = 0
  /\ products = <<>>
  /\ ids = <<>>
  /\ bound = FALSE
  /\ new_ids = <<>>
  /\ out = NoOutcome
  /\ fetches = 0
  /\ cooldown = 0
  /\ exit = "none"
  /\ ret = NoRet
  /\ known = <<>>
  /\ no_new_streak = 0
  /\ new_total = 0
  /\ fresh = <<>>
  /\ crawl_failed = FALSE
  /\ urls = <<>>

InitHarvest ==
  /\ outcomes = CrawlOutcomes
  /\ cat_outcomes = {}
  /\ refreshes = 0
  /\ flow = "harvest"
  /\ pc = "load"
  /\ fs \in InitialFs
  /\ aw = NoWrite
  /\ persisted = {}
  /\ link = LINK
  /\ plan_resp = NoResponse
  /\ canon = NoCanon
  /\ resolver = NoCall
  /\ crawl = NoCall
  /\ InitMemory

ResetMemory ==
  /\ all_products_by_id' = <<>>
  /\ known_ids' = {}
  /\ pages_index' = EmptyIndex
  /\ total_new_added' = 0
  /\ total_pages' = 0
  /\ page_idx' = 0
  /\ page_new_products' = <<>>
  /\ EngineLocals(0, 0, 0)
  /\ known' = <<>>
  /\ no_new_streak' = 0
  /\ new_total' = 0
  /\ fresh' = <<>>
  /\ crawl_failed' = FALSE
  /\ urls' = <<>>

\* ------------------------------------------------------------------------
\* atomic_write_json(path, data)
\* ------------------------------------------------------------------------
StartWrite(path, file, cont) ==
  /\ aw' = [path |-> path, file |-> file, step |-> "open", cont |-> cont]
  /\ pc' = "write"

\* open(tmp, "w"): the temporary file exists and is empty
AwOpen ==
  /\ pc = "write" /\ aw.step = "open"
  /\ fs' = [fs EXCEPT ![TmpOf(aw.path)] = Partial]
  /\ aw' = [aw EXCEPT !.step = "dump"]
  /\ UNCHANGED <<flow, pc, storeVars, engineVars, persisted, outcomes, planVars, pureVars, discVars>>

\* json.dump(data, f) and the close of the with block
AwDump ==
  /\ pc = "write" /\ aw.step = "dump"
  /\ fs' = [fs EXCEPT ![TmpOf(aw.path)] = aw.file]
  /\ aw' = [aw EXCEPT !.step = "replace"]
  /\ UNCHANGED <<flow, pc, storeVars, engineVars, persisted, outcomes, planVars, pureVars, discVars>>

AwFailAbsorbed ==
  /\ pc = "write"
  /\ aw' = [aw EXCEPT !.step = "error"]
  /\ pc' = aw.cont
  /\ UNCHANGED <<flow, fs, storeVars, engineVars, persisted, outcomes, planVars, pureVars, discVars>>

\* open, json.dump or os.replace raises OSError: nothing in atomic_write_json
\* or in its callers catches it, the exception leaves the run.  The
\* temporary path stays as the failed step found it.
AwFail ==
  /\ pc = "write"
  /\ aw' = [aw EXCEPT !.step = "error"]
  /\ pc' = "raised"
  /\ UNCHANGED <<flow, fs, storeVars, engineVars, persisted, outcomes, planVars, pureVars, discVars>>

\* the target of the rename; the temporary path disappears
ReplaceInto(path) ==
  [fs EXCEPT ![path] = fs[TmpOf(aw.path)], ![TmpOf(aw.path)] = Absent]

\* os.replace(tmp, path), then the caller goes on
AwReplace ==
  /\ pc = "write" /\ aw.step = "replace"
  /\ fs' = ReplaceInto(aw.path)
  /\ aw' = NoWrite
  /\ pc' = aw.cont
  /\ persisted' = IF aw.path = OUTPUT_FILE THEN DictKeys(all_products_by_id) ELSE persisted
  /\ UNCHANGED <<flow, storeVars, engineVars, outcomes, planVars, pureVars, discVars>>


\* ------------------------------------------------------------------------
\* fetch_until_new
\* ------------------------------------------------------------------------
EngineEntry(mr, mn) == EngineLocals(mr, mn, 1)

\* where control goes when fetch_until_new returns, and when it raises
ReturnPc == IF flow = "harvest" THEN "merge" ELSE "returned"

AllIds(is, kn) == is

\* new_ids = [pid for pid in ids if pid not in known_ids]
NewIds(is, kn) == SelectSeq(is, LAMBDA pid : pid \notin kn)

AcceptsStrictlyMore(n, mn) == n > mn

\* the test of the novelty against the threshold
Accepts(n, mn) == n >= mn

\* the block cooldown range, in seconds
BLOCK_COOLDOWN_RANGE == <<35, 75>>

\* random.uniform(a, b): a value between a and b; the two ends and the middle
\* stand for the interval
uniform(range) == {range[1], (range[1] + range[2]) \div 2, range[2]}

IsBlockEventAnyMarkup(o) == o.blocked

\* except BlockedError: only crawl_once's exception makes a block event
IsBlockEvent(o) == o.status = "BlockedError"

\* an attempt that records the identities it saw in known_ids
AttemptLearns ==
  /\ pc = "attempt"
  /\ \E o \in outcomes :
       /\ out' = o
       /\ known_ids' = known_ids \cup (IF o.status = "ok" THEN Range(o.ids) ELSE {})
       /\ fetches' = fetches + 1
       /\ IF IsBlockEvent(o)
            THEN /\ cooldown' \in uniform(BLOCK_COOLDOWN_RANGE)
                 /\ pc' = "cooldown"
                 /\ UNCHANGED <<products, ids, bound, new_ids, exit, ret>>
            ELSE LET ps == IF o.status = "ok" THEN o.products ELSE <<>>
                     is == IF o.status = "ok" THEN o.ids ELSE <<>>
                     ns == NewIds(is, known_ids)
                 IN /\ products' = ps
                    /\ ids' = is
                    /\ bound' = TRUE
                    /\ cooldown' = cooldown
                    /\ IF ps = <<>>
                         THEN /\ pc' = "backoff"
                              /\ UNCHANGED <<new_ids, exit, ret>>
                         ELSE /\ new_ids' = ns
                              /\ IF Accepts(Len(ns), min_new)
                                   THEN /\ exit' = "accept"
                                        /\ ret' = [products |-> ps, ids |-> is,
                                                   attempts_used |-> attempt]
                                        /\ pc' = ReturnPc
                                   ELSE /\ pc' = "backoff"
                                        /\ UNCHANGED <<exit, ret>>
  /\ UNCHANGED <<flow, fs, aw, all_products_by_id, pages_index, total_new_added,
                 total_pages, page_idx, page_new_products, max_retries, min_new, attempt, persisted, outcomes, planVars, pureVars, discVars>>

\* one iteration of the loop up to its sleep or its return: build the
\* attempt URL, await crawl_once, apply the acceptance rule
Attempt ==
  /\ pc = "attempt"
  /\ \E o \in outcomes :
       /\ out' = o
       /\ fetches' = fetches + 1
       /\ IF IsBlockEvent(o)
            THEN /\ cooldown' \in uniform(BLOCK_COOLDOWN_RANGE)
                 /\ pc' = "cooldown"
                 /\ UNCHANGED <<products, ids, bound, new_ids, exit, ret>>
            ELSE LET ps == IF o.status = "ok" THEN o.products ELSE <<>>
                     is == IF o.status = "ok" THEN o.ids ELSE <<>>
                     ns == NewIds(is, known_ids)
                 IN /\ products' = ps
                    /\ ids' = is
                    /\ bound' = TRUE
                    /\ cooldown' = cooldown
                    /\ IF ps = <<>>
                         THEN /\ pc' = "backoff"
                              /\ UNCHANGED <<new_ids, exit, ret>>
                         ELSE /\ new_ids' = ns
                              /\ IF Accepts(Len(ns), min_new)
                                   THEN /\ exit' = "accept"
                                        /\ ret' = [products |-> ps, ids |-> is,
                                                   attempts_used |-> attempt]
                                        /\ pc' = ReturnPc
                                   ELSE /\ pc' = "backoff"
                                        /\ UNCHANGED <<exit, ret>>
  /\ UNCHANGED <<flow, fs, aw, storeVars, max_retries, min_new, attempt, persisted, outcomes, planVars, pureVars, discVars>>

LoopNextSkipsOne ==
  /\ attempt' = attempt + 2
  /\ pc' = "attempt"
  /\ UNCHANGED <<exit, ret>>

\* the loop bound taken one too far
LoopNextOneMore ==
  IF attempt <= max_retries
    THEN /\ attempt' = attempt + 1
         /\ pc' = "attempt"
         /\ UNCHANGED <<exit, ret>>
    ELSE /\ attempt' = attempt
         /\ IF bound
              THEN /\ exit' = "exhaust"
                   /\ ret' = [products |-> products, ids |-> ids,
                              attempts_used |-> max_retries]
                   /\ pc' = ReturnPc
              ELSE /\ exit' = "raise"
                   /\ pc' = "raised"
                   /\ ret' = ret

\* the end of an iteration: the next attempt, or the return after the loop
\* (which reads products and ids, unassigned if every attempt was blocked)
LoopNext ==
  IF attempt < max_retries
    THEN /\ attempt' = attempt + 1
         /\ pc' = "attempt"
         /\ UNCHANGED <<exit, ret>>
    ELSE /\ attempt' = attempt
         /\ IF bound
              THEN /\ exit' = "exhaust"
                   /\ ret' = [products |-> products, ids |-> ids,
                              attempts_used |-> max_retries]
                   /\ pc' = ReturnPc
              ELSE /\ exit' = "raise"
                   /\ pc' = "raised"
                   /\ ret' = ret

CooldownThenBackoff ==
  /\ pc = "cooldown"
  /\ pc' = "backoff"
  /\ cooldown' = 0
  /\ UNCHANGED <<flow, fs, aw, storeVars, max_retries, min_new, attempt, products, ids,
                 bound, new_ids, out, fetches, exit, ret, persisted, outcomes, planVars, pureVars, discVars>>

\* the block cooldown sleep ends; continue
CooldownDone ==
  /\ pc = "cooldown"
  /\ LoopNext
  /\ cooldown' = 0
  /\ UNCHANGED <<flow, fs, aw, storeVars, max_retries, min_new, products, ids,
                 bound, new_ids, out, fetches, persisted, outcomes, planVars, pureVars, discVars>>

\* the exponential backoff sleep ends
BackoffDone ==
  /\ pc = "backoff"
  /\ LoopNext
  /\ cooldown' = cooldown
  /\ UNCHANGED <<flow, fs, aw, storeVars, max_retries, min_new, products, ids,
                 bound, new_ids, out, fetches, persisted, outcomes, planVars, pureVars, discVars>>

\* ------------------------------------------------------------------------
\* Pagination planner
\* ------------------------------------------------------------------------
\* the decimal digits, in order
DigitChars == <<"0", "1", "2", "3", "4", "5", "6", "7", "8", "9">>

\* str(n) for an int n >= 0: its decimal digits
RECURSIVE str(_)
str(n) ==
  IF n < 10 THEN <<DigitChars[n + 1]>>
  ELSE Append(str(n \div 10), DigitChars[(n % 10) + 1])

\* int(s) for a string of decimal digits: ValueError on the empty string
RECURSIVE int(_)
int(s) ==
  IF s = <<>> THEN [raised |-> TRUE, value |-> 0]
  ELSE LET d == CHOOSE k \in 0..9 : DigitChars[k + 1] = s[Len(s)]
       IN IF Len(s) = 1 THEN [raised |-> FALSE, value |-> d]
          ELSE [raised |-> FALSE,
                value |-> 10 * int(SubSeq(s, 1, Len(s) - 1)).value + d]

\* s.replace(c, "")
replace(s, c) == SelectSeq(s, LAMBDA x : x # c)

RECURSIVE dict(_, _)
dict(q, d) == IF q = <<>> THEN d ELSE dict(Tail(q), DictSet(d, Head(q)[1], Head(q)[2]))

set_query_param(url, key, value) ==
  LET q_dict == dict(url.query, <<>>)
  IN PageUrl(url.base, DictSet(q_dict, key, value))

PAGE_PARAM == "page"

build_page_url(base_url, page) == set_query_param(base_url, PAGE_PARAM, str(page))

\* urls = [build_page_url(link, page) for page in range(1, total_pages + 1)]
BuildUrls(l, n) == [page \in 1..n |-> build_page_url(l, page)]

Links ==
  {LINK,
   PageUrl("https://www.daraz.com.bd/catalog/", <<<<"q", <<"h", "o", "s", "e">>>>>>),
   PageUrl("https://www.daraz.com.bd/catalog/",
           <<<<"page", str(7)>>, <<"q", <<"h", "o", "s", "e">>>>>>),
   PageUrl("https://www.daraz.com.bd/catalog/",
           <<<<"color", <<"r", "e", "d">>>>, <<"color", <<"b", "l", "u", "e">>>>,
             <<"q", <<"h", "o", "s", "e">>>>>>),
   PageUrl("https://www.daraz.com.bd/catalog/",
           <<<<"page", str(7)>>, <<"q", <<"h", "o", "s", "e">>>>, <<"page", str(9)>>>>)}

\* Markup as the planner's patterns see it: a sequence of places, each a
\* text that pattern number pat of the list matches with capture raw, or
\* (pat = 0) a text that no pattern matches
Place(pat, raw) == [pat |-> pat, raw |-> raw]

\* the positions of the list patterns: items found, totalResults,
\* resultCount, total, data-total-items
patterns_reversed == <<5, 4, 3, 2, 1>>

patterns == <<1, 2, 3, 4, 5>>

NoMatch == [found |-> FALSE, raw |-> <<>>]

\* re.search(pat, html): the leftmost place where the pattern matches
RECURSIVE search(_, _)
search(pat, html) ==
  IF html = <<>> THEN NoMatch
  ELSE IF Head(html).pat = pat THEN [found |-> TRUE, raw |-> Head(html).raw]
  ELSE search(pat, Tail(html))

\* for pat in patterns: the first pattern with a match whose capture,
\* commas and dots removed, int() accepts
RECURSIVE PatternsLoop(_, _)
PatternsLoop(pats, html) ==
  IF pats = <<>> THEN 0
  ELSE LET m == search(Head(pats), html)
           clean == replace(replace(m.raw, ","), ".")
       IN IF m.found /\ ~int(clean).raised
            THEN int(clean).value
            ELSE PatternsLoop(Tail(pats), html)

parse_total_items_from_html(html) ==
  IF html = <<>> THEN 0 ELSE PatternsLoop(patterns, html)

Max(a, b) == IF a >= b THEN a ELSE b

CeilTruncates(a, b) == a \div b

CeilOneMore(a, b) == (a \div b) + 1

\* math.ceil(a / b) for positive b
Ceil(a, b) == (a + b - 1) \div b

\* the html of the first result that is not None and has markup, else ""
RECURSIVE FirstHtml(_)
FirstHtml(results) ==
  IF results = <<>> THEN <<>>
  ELSE IF ~Head(results).none /\ Head(results).html # <<>> THEN Head(results).html
  ELSE FirstHtml(Tail(results))

detect_total_pages_unclamped(resp) ==
  IF resp.raised THEN 0
  ELSE Ceil(parse_total_items_from_html(FirstHtml(resp.results)), PRODUCTS_PER_PAGE)

detect_total_pages(resp) ==
  IF resp.raised THEN 1
  ELSE LET total_items == parse_total_items_from_html(FirstHtml(resp.results))
       IN IF total_items <= 0 THEN 1
          ELSE Max(1, Ceil(total_items, PRODUCTS_PER_PAGE))

\* Inputs of the planner: totals at the page boundaries and the listing of
\* 1114 items
TotalItemsInputs ==
  {n \in 0..(MaxPages * PRODUCTS_PER_PAGE) : n % PRODUCTS_PER_PAGE \in {0, 1}} \cup {1114}

PlanHtmls ==
  {<<>>, <<Place(0, <<>>)>>}
    \cup {<<Place(pat, str(n))>> : pat \in {1, 2, 5}, n \in TotalItemsInputs}
    \cup {<<Place(1, <<"1", ",", "1", "1", "4">>)>>,
          <<Place(1, <<"1", ".", "1", "1", "4">>)>>,
          <<Place(1, <<",">>)>>,
          <<Place(1, <<".">>), Place(4, str(PRODUCTS_PER_PAGE + 1))>>,
          <<Place(3, str(PRODUCTS_PER_PAGE + 1)), Place(1, str(1))>>,
          <<Place(4, str(7)), Place(2, str(PRODUCTS_PER_PAGE + 1))>>,
          <<Place(1, str(PRODUCTS_PER_PAGE + 1)), Place(1, str(1))>>,
          <<Place(1, <<".">>), Place(1, str(1)), Place(5, str(PRODUCTS_PER_PAGE + 1))>>}

\* a result of the first-page fetch: None, or an object with html
PlanResults ==
  {[none |-> TRUE, html |-> <<>>]} \cup {[none |-> FALSE, html |-> h] : h \in PlanHtmls}

PlannerResponses ==
  {[raised |-> TRUE, results |-> <<>>]}
    \cup {[raised |-> FALSE, results |-> q] : q \in SeqsUpTo(PlanResults, MaxFragments)}

\* the first-page responses of a listing of at most MaxPages pages
PlanResponses == {resp \in PlannerResponses : detect_total_pages(resp) <= MaxPages}

\* ------------------------------------------------------------------------
\* demo_css_structured_extraction_no_schema: the harvest run
\* ------------------------------------------------------------------------
\* the loads at the start of the run
Load ==
  /\ flow = "harvest" /\ pc = "load"
  /\ LET f == load_json_if_exists(fs[OUTPUT_FILE], JsonList(<<>>))
         x == load_json_if_exists(fs[PAGES_INDEX_FILE], JsonObject(EmptyIndex))
         existing_products_list == IF f.value.kind = "list" THEN f.value.data ELSE <<>>
         l == LoadById(existing_products_list, <<>>)
     IN IF f.raised \/ l.raised \/ x.raised
          THEN /\ pc' = "raised"
               /\ UNCHANGED storeVars
          ELSE /\ all_products_by_id' = l.dict
               /\ known_ids' = DictKeys(l.dict)
               /\ pages_index' = x.value.data
               /\ total_new_added' = 0
               /\ pc' = "plan"
               /\ UNCHANGED <<total_pages, page_idx, page_new_products>>
  /\ UNCHANGED <<flow, fs, aw, engineVars, persisted, outcomes, planVars, pureVars, discVars>>

\* detect_total_pages and the entry of the page loop
Plan ==
  /\ flow = "harvest" /\ pc = "plan"
  /\ \E resp \in PlanResponses : total_pages' = detect_total_pages(resp)
  /\ urls' = BuildUrls(link, total_pages')
  /\ page_idx' = 1
  /\ EngineEntry(MAX_RETRIES, MIN_NEW_PER_PAGE)
  /\ pc' = "attempt"
  /\ UNCHANGED <<flow, fs, aw, all_products_by_id, known_ids, pages_index,
                 total_new_added, page_new_products, persisted, outcomes, discVars,
                 link, plan_resp, pureVars>>

\* the body of the page loop after fetch_until_new returned, up to the
\* per-page write or the pause
Merge ==
  /\ flow = "harvest" /\ pc = "merge"
  /\ IF ret.products = <<>>
       THEN /\ pc' = "pause_long"
            /\ UNCHANGED <<aw, all_products_by_id, known_ids, pages_index,
                           page_new_products>>
       ELSE LET m == MergeLoop(ret.products,
                               [known |-> known_ids, byid |-> all_products_by_id,
                                new |-> <<>>])
                to_save_page == IF SAVE_ONLY_UNIQUE THEN m.new ELSE ret.products
            IN /\ known_ids' = m.known
               /\ all_products_by_id' = m.byid
               /\ page_new_products' = m.new
               /\ pages_index' = (page_idx :> ret.ids) @@ pages_index
               /\ IF to_save_page # <<>>
                    THEN StartWrite(PageFile(page_idx), JsonList(to_save_page), "page_saved")
                    ELSE pc' = "pause" /\ aw' = aw
  /\ UNCHANGED <<flow, fs, total_new_added, total_pages, page_idx, engineVars,
                 persisted, outcomes, planVars, pureVars, discVars>>

\* the counter advanced by the size of the returned page
PageSavedCountsReturned ==
  /\ pc = "page_saved"
  /\ total_new_added' = total_new_added + Len(ret.products)
  /\ pc' = "pause"
  /\ UNCHANGED <<flow, fs, aw, all_products_by_id, known_ids, pages_index,
                 total_pages, page_idx, page_new_products, engineVars, persisted, outcomes, planVars, pureVars, discVars>>

\* after the per-page file is in place
PageSaved ==
  /\ pc = "page_saved"
  /\ total_new_added' = total_new_added + Len(page_new_products)
  /\ pc' = "pause"
  /\ UNCHANGED <<flow, fs, aw, all_products_by_id, known_ids, pages_index,
                 total_pages, page_idx, page_new_products, engineVars, persisted, outcomes, planVars, pureVars, discVars>>

\* the next page entered without the sleep
PauseDoneUnslept ==
  /\ pc \in {"page_saved", "pause", "pause_long"}
  /\ IF page_idx < total_pages
       THEN /\ page_idx' = page_idx + 1
            /\ EngineEntry(MAX_RETRIES, MIN_NEW_PER_PAGE)
            /\ pc' = "attempt"
            /\ aw' = aw
       ELSE /\ StartWrite(OUTPUT_FILE, JsonList(DictValues(all_products_by_id)),
                          "products_saved")
            /\ UNCHANGED <<page_idx, engineVars>>
  /\ UNCHANGED <<flow, fs, all_products_by_id, known_ids, pages_index,
                 total_new_added, total_pages, page_new_products, persisted, outcomes, planVars, pureVars, discVars>>

\* the inter-page sleep ends: the next page, or the saves after the loop
PauseDone ==
  /\ pc \in {"pause", "pause_long"}
  /\ IF page_idx < total_pages
       THEN /\ page_idx' = page_idx + 1
            /\ EngineEntry(MAX_RETRIES, MIN_NEW_PER_PAGE)
            /\ pc' = "attempt"
            /\ aw' = aw
       ELSE /\ StartWrite(OUTPUT_FILE, JsonList(DictValues(all_products_by_id)),
                          "products_saved")
            /\ UNCHANGED <<page_idx, engineVars>>
  /\ UNCHANGED <<flow, fs, all_products_by_id, known_ids, pages_index,
                 total_new_added, total_pages, page_new_products, persisted, outcomes, planVars, pureVars, discVars>>

ProductsSaved ==
  /\ pc = "products_saved"
  /\ StartWrite(PAGES_INDEX_FILE, JsonObject(pages_index), "done")
  /\ UNCHANGED <<flow, fs, storeVars, engineVars, persisted, outcomes, planVars, pureVars, discVars>>

\* ------------------------------------------------------------------------
\* The process is terminated from outside: its memory is gone, the files stay
\* ------------------------------------------------------------------------
RunningPcs == {"load", "plan", "attempt", "cooldown", "backoff", "merge", "write",
               "page_saved", "pause", "pause_long", "products_saved",
               "d_load", "d_refresh", "d_fresh_saved", "d_saved", "d_sleep"}

Crash ==
  /\ flow \in {"harvest", "discovery"} /\ pc \in RunningPcs
  /\ pc' = "crashed"
  /\ aw' = NoWrite
  /\ ResetMemory
  /\ UNCHANGED <<flow, fs, persisted, outcomes, link, plan_resp, pureVars, refreshes, cat_outcomes>>

\* ------------------------------------------------------------------------
\* One call of fetch_until_new on its own
\* ------------------------------------------------------------------------
KnownIdsArgs == SUBSET {<<"a">>, <<"b">>}

InitEngine ==
  /\ outcomes = CrawlOutcomes
  /\ cat_outcomes = {}
  /\ refreshes = 0
  /\ known = <<>>
  /\ no_new_streak = 0
  /\ new_total = 0
  /\ fresh = <<>>
  /\ crawl_failed = FALSE
  /\ urls = <<>>
  /\ flow = "engine"
  /\ pc = "attempt"
  /\ fs \in {[p \in Paths |-> Absent]}
  /\ aw = NoWrite
  /\ persisted = {}
  /\ all_products_by_id = <<>>
  /\ known_ids \in KnownIdsArgs
  /\ pages_index = EmptyIndex
  /\ total_new_added = 0
  /\ total_pages = 0
  /\ page_idx = 0
  /\ page_new_products = <<>>
  /\ max_retries \in 1..MaxRetriesArg
  /\ min_new \in 0..MaxMinNewArg
  /\ attempt = 1
  /\ products = <<>>
  /\ ids = <<>>
  /\ bound = FALSE
  /\ new_ids = <<>>
  /\ out = NoOutcome
  /\ fetches = 0
  /\ cooldown = 0
  /\ exit = "none"
  /\ ret = NoRet
  /\ link = LINK
  /\ plan_resp = NoResponse
  /\ canon = NoCanon
  /\ resolver = NoCall
  /\ crawl = NoCall

NextEngine == Attempt \/ CooldownDone \/ BackoffDone

SpecEngine == InitEngine /\ [][NextEngine]_vars

\* ------------------------------------------------------------------------
\* collect_categories_multiple_refreshes: the discovery run
\* ------------------------------------------------------------------------
\* what categories.json can hold when a run starts: records with canonical
\* links, and records an older version wrote with links as found
StoredRecords ==
  {CategoryRecord(<<"S">>, canonicalize_category_link(HOMEPAGE_URL, hSanders).canonical_url),
   CategoryRecord(<<" ", "C">>, hCat10),
   CategoryRecord(<<"D">>, hCat10Alt),
   CategoryRecord(<<" ">>, hCat20),
   CategoryRecord(<<"N">>, EmptyUrl)}

InitialCategoryFiles ==
  {Absent, JsonObject(<<>>)} \cup {JsonList(q) : q \in SeqsUpTo(StoredRecords, MaxFileLen)}

InitDiscovery ==
  /\ cat_outcomes = CategoryOutcomes
  /\ outcomes = {}
  /\ flow = "discovery"
  /\ pc = "d_load"
  /\ fs \in {[p \in Paths |-> IF p = CATEGORIES_FILE THEN f ELSE Absent] :
               f \in InitialCategoryFiles}
  /\ aw = NoWrite
  /\ persisted = {}
  /\ refreshes \in 0..MaxRefreshesArg
  /\ link = LINK
  /\ plan_resp = NoResponse
  /\ canon = NoCanon
  /\ resolver = NoCall
  /\ crawl = NoCall
  /\ InitMemory

\* the load of categories.json and the entry of the refresh loop
DLoad ==
  /\ flow = "discovery" /\ pc = "d_load"
  /\ LET f == load_json_if_exists(fs[CATEGORIES_FILE], JsonList(<<>>))
         existing == IF f.value.kind = "list" THEN f.value.data ELSE <<>>
     IN IF f.raised
          THEN /\ pc' = "raised"
               /\ UNCHANGED <<known, attempt>>
          ELSE /\ known' = LoadKnown(HOMEPAGE_URL, existing, <<>>)
               /\ IF 1 <= refreshes
                    THEN attempt' = 1 /\ pc' = "d_refresh"
                    ELSE attempt' = attempt /\ pc' = "done"
  /\ new_total' = 0
  /\ no_new_streak' = 0
  /\ UNCHANGED <<flow, fs, aw, storeVars, max_retries, min_new, products, ids, bound,
                 new_ids, out, fetches, cooldown, exit, ret, persisted, outcomes, planVars, pureVars, refreshes,
                 fresh, crawl_failed, cat_outcomes>>

\* one refresh up to its first write: fetch, merge the unknown categories,
\* update the streak
Refresh ==
  /\ flow = "discovery" /\ pc = "d_refresh"
  /\ \E o \in cat_outcomes :
       LET items == IF o.raised THEN <<>> ELSE o.items
           m == FreshLoop(HOMEPAGE_URL, items, [known |-> known, fresh |-> <<>>])
       IN /\ known' = m.known
          /\ fresh' = m.fresh
          /\ crawl_failed' = o.raised
          /\ IF m.fresh # <<>>
               THEN /\ no_new_streak' = 0
                    /\ new_total' = new_total + Len(m.fresh)
                    /\ StartWrite(RefreshFile(attempt), JsonList(m.fresh), "d_fresh_saved")
               ELSE /\ no_new_streak' = no_new_streak + 1
                    /\ new_total' = new_total
                    /\ StartWrite(CATEGORIES_FILE, JsonList(DictValues(m.known)), "d_saved")
  /\ UNCHANGED <<flow, fs, storeVars, engineVars, persisted, outcomes, planVars, pureVars, refreshes,
                 cat_outcomes>>

FreshSavedOnly ==
  /\ pc = "d_fresh_saved"
  /\ pc' = "d_saved"
  /\ UNCHANGED <<flow, fs, aw, storeVars, engineVars, persisted, outcomes, planVars, pureVars, discVars>>

\* after the per-refresh snapshot: the write of categories.json
FreshSaved ==
  /\ pc = "d_fresh_saved"
  /\ StartWrite(CATEGORIES_FILE, JsonList(DictValues(known)), "d_saved")
  /\ UNCHANGED <<flow, fs, storeVars, engineVars, persisted, outcomes, planVars, pureVars, discVars>>

CategoriesSavedStopsLate ==
  /\ pc = "d_saved"
  /\ pc' = IF no_new_streak > STOP_AFTER_NO_NEW_STREAK THEN "done" ELSE "d_sleep"
  /\ UNCHANGED <<flow, fs, aw, storeVars, engineVars, persisted, outcomes, planVars, pureVars, discVars>>

\* after categories.json is in place: the early stop, or the sleep
CategoriesSaved ==
  /\ pc = "d_saved"
  /\ pc' = IF no_new_streak >= STOP_AFTER_NO_NEW_STREAK THEN "done" ELSE "d_sleep"
  /\ UNCHANGED <<flow, fs, aw, storeVars, engineVars, persisted, outcomes, planVars, pureVars, discVars>>

\* the sleep between refreshes ends
RefreshSleepDone ==
  /\ pc = "d_sleep"
  /\ IF attempt < refreshes
       THEN attempt' = attempt + 1 /\ pc' = "d_refresh"
       ELSE attempt' = attempt /\ pc' = "done"
  /\ UNCHANGED <<flow, fs, aw, storeVars, max_retries, min_new, products, ids, bound,
                 new_ids, out, fetches, cooldown, exit, ret, persisted, outcomes, planVars, pureVars, discVars>>

\* ------------------------------------------------------------------------
\* The planner on its own: detect_total_pages on one first-page response,
\* then the list of page URLs
\* ------------------------------------------------------------------------
InitPlanner ==
  /\ outcomes = {}
  /\ cat_outcomes = {}
  /\ refreshes = 0
  /\ flow = "planner"
  /\ pc = "plan"
  /\ fs = [p \in Paths |-> Absent]
  /\ aw = NoWrite
  /\ persisted = {}
  /\ link \in Links
  /\ plan_resp \in PlannerResponses
  /\ canon = NoCanon
  /\ resolver = NoCall
  /\ crawl = NoCall
  /\ InitMemory

DetectAndBuild ==
  /\ flow = "planner" /\ pc = "plan"
  /\ total_pages' = detect_total_pages(plan_resp)
  /\ urls' = BuildUrls(link, total_pages')
  /\ pc' = "planned"
  /\ UNCHANGED <<flow, fs, aw, all_products_by_id, known_ids, pages_index,
                 total_new_added, page_idx, page_new_products, engineVars, persisted,
                 outcomes, discVars, link, plan_resp, pureVars>>

NextPlanner == DetectAndBuild

SpecPlanner == InitPlanner /\ [][NextPlanner]_vars

\* ------------------------------------------------------------------------
\* canonicalize_category_link on its own: a link is canonicalized, and its
\* canonical_url is canonicalized again against the same base, as the load
\* of categories.json does with stored links
\* ------------------------------------------------------------------------
\* https://www.daraz.com.bd/catalog?q=1
CatalogBase ==
  Url("https", <<"www", "daraz", "com", "bd">>, <<"/", "catalog">>,
      <<<<"q", Text(<<"1">>)>>>>, "")

\* http://www.daraz.com.bd/
HttpBase == Url("http", <<"www", "daraz", "com", "bd">>, <<"/">>, <<>>, "")

Bases == {HOMEPAGE_URL, CatalogBase, HttpBase}

HrefPaths ==
  {<<>>, <<"/">>, <<"/", "sanders">>, <<"/", "/", "sanders", "/">>, <<"/", "catalog">>,
   <<"/", "catalog", "/">>, <<"/", "sanders", ";", "p", "/">>,
   <<"/", "sanders", ";", "p">>, <<"/", "a", ";", "p", "/", "catalog">>}

HrefQueries ==
  {<<>>,
   <<<<"ref", Text(<<"1">>)>>>>,
   <<<<"categoryId", Text(<<" ", "1", "0">>)>>, <<"utm_source", Text(<<"x">>)>>>>,
   <<<<"cat", Text(<<" ">>)>>, <<"params", JsonObj(<<<<"catId", <<" ", "1", "0">>>>>>)>>>>,
   <<<<"catId", Text(<<"1">>)>>, <<"cat", Text(<<"2">>)>>, <<"catId", Text(<<"3">>)>>>>,
   <<<<"cat", Text(<<"5">>)>>, <<"params", JsonObj(<<<<"catId", <<"1", "0">>>>>>)>>>>,
   <<<<"x", Text(<<"1">>)>>, <<"params", JsonObj(<<<<"catId", <<"1", "0">>>>>>)>>>>}

\* /sanders?ref=123
hSanders123 == Url("", <<>>, <<"/", "sanders">>, <<<<"ref", Text(<<"1", "2", "3">>)>>>>, "")

\* relative references with a rooted or empty path, protocol-relative and
\* absolute links
Hrefs ==
  {u \in {Url(sch, host, path, q, frag) :
            sch \in {"", "http"}, host \in {<<>>, <<"WWW", "Daraz", "com", "bd">>},
            path \in HrefPaths, q \in HrefQueries, frag \in {"", "top"}} :
     u.scheme # "" => u.netloc # <<>>}
    \cup {hSanders, hSandersAlt, hCat10, hCat10Alt, hCat20, hSanders123}

InitCanon ==
  /\ outcomes = {}
  /\ cat_outcomes = {}
  /\ refreshes = 0
  /\ flow = "canon"
  /\ pc = "c_start"
  /\ fs = [p \in Paths |-> Absent]
  /\ aw = NoWrite
  /\ persisted = {}
  /\ link = LINK
  /\ plan_resp = NoResponse
  /\ resolver = NoCall
  /\ crawl = NoCall
  /\ canon \in {[base |-> b, href |-> h, once |-> <<>>, twice |-> <<>>] :
                  b \in Bases, h \in Hrefs}
  /\ InitMemory

\* canonical, key = canonicalize_category_link(base, href)
CanonOnce ==
  /\ flow = "canon" /\ pc = "c_start"
  /\ canon' = [canon EXCEPT !.once = canonicalize_category_link(canon.base, canon.href)]
  /\ pc' = "c_once"
  /\ UNCHANGED <<flow, fs, aw, storeVars, engineVars, persisted, outcomes, discVars, planVars,
                 resolver, crawl>>

\* canonical, key = canonicalize_category_link(base, canonical)
CanonTwice ==
  /\ flow = "canon" /\ pc = "c_once"
  /\ canon' = [canon EXCEPT
                 !.twice = canonicalize_category_link(canon.base, canon.once.canonical_url)]
  /\ pc' = "c_twice"
  /\ UNCHANGED <<flow, fs, aw, storeVars, engineVars, persisted, outcomes, discVars, planVars,
                 resolver, crawl>>

NextCanon == CanonOnce \/ CanonTwice

SpecCanon == InitCanon /\ [][NextCanon]_vars

\* ------------------------------------------------------------------------
\* get_product_id on its own: one record, resolved twice
\* ------------------------------------------------------------------------
IdValues ==
  {NoneV, StrV(<<>>), StrV(<<" ">>), StrV(<<"a">>), StrV(<<" ", "b", " ">>), NumV, ZeroV,
   ListV}

SkuValues ==
  {NoneV, StrV(<<>>), StrV(<<"a", "_", "x">>), StrV(<<" ", "_", "x">>),
   StrV(<<" ", "a", " ", "_", "x", "_", "y">>), StrV(<<"a", "b">>), StrV(<<"_">>),
   StrV(<<" ", "c", "_", "y", " ">>), NumV, ZeroV, ListV}

ResolverRecords == {Rec(i, k) : i \in IdValues, k \in SkuValues} \cup {NonMapping}

InitResolver ==
  /\ outcomes = {}
  /\ cat_outcomes = {}
  /\ refreshes = 0
  /\ flow = "resolver"
  /\ pc = "r_start"
  /\ fs = [p \in Paths |-> Absent]
  /\ aw = NoWrite
  /\ persisted = {}
  /\ link = LINK
  /\ plan_resp = NoResponse
  /\ canon = NoCanon
  /\ crawl = NoCall
  /\ resolver \in {[product |-> r, first |-> <<>>, second |-> <<>>] : r \in ResolverRecords}
  /\ InitMemory

\* get_product_id(product)
Resolve ==
  /\ flow = "resolver" /\ pc = "r_start"
  /\ resolver' = [resolver EXCEPT !.first = get_product_id(resolver.product)]
  /\ pc' = "r_once"
  /\ UNCHANGED <<flow, fs, aw, storeVars, engineVars, persisted, outcomes, discVars, planVars,
                 canon, crawl>>

\* get_product_id(product), once more
ResolveAgain ==
  /\ flow = "resolver" /\ pc = "r_once"
  /\ resolver' = [resolver EXCEPT !.second = get_product_id(resolver.product)]
  /\ pc' = "r_twice"
  /\ UNCHANGED <<flow, fs, aw, storeVars, engineVars, persisted, outcomes, discVars, planVars,
                 canon, crawl>>

NextResolver == Resolve \/ ResolveAgain

SpecResolver == InitResolver /\ [][NextResolver]_vars

\* ------------------------------------------------------------------------
\* crawl_once on its own: one response of the fetch collaborator
\* ------------------------------------------------------------------------
InitCrawl ==
  /\ outcomes = {}
  /\ cat_outcomes = {}
  /\ refreshes = 0
  /\ flow = "crawl"
  /\ pc = "k_start"
  /\ fs = [p \in Paths |-> Absent]
  /\ aw = NoWrite
  /\ persisted = {}
  /\ link = LINK
  /\ plan_resp = NoResponse
  /\ canon = NoCanon
  /\ resolver = NoCall
  /\ crawl \in {[resp |-> r, out |-> NoOutcome] : r \in CrawlResponses}
  /\ InitMemory

\* products, ids = await crawl_once(...)
CrawlOnce ==
  /\ flow = "crawl" /\ pc = "k_start"
  /\ crawl' = [crawl EXCEPT !.out = crawl_once(crawl.resp)]
  /\ pc' = "k_done"
  /\ UNCHANGED <<flow, fs, aw, storeVars, engineVars, persisted, outcomes, discVars, planVars,
                 canon, resolver>>

NextCrawl == CrawlOnce

SpecCrawl == InitCrawl /\ [][NextCrawl]_vars

\* ------------------------------------------------------------------------
\* A run of either program
\* ------------------------------------------------------------------------
Init == InitHarvest \/ InitDiscovery

Next ==
  \/ Load \/ Plan \/ Attempt \/ CooldownDone \/ BackoffDone \/ Merge \/ PageSaved
  \/ PauseDone \/ ProductsSaved
  \/ DLoad \/ Refresh \/ FreshSaved \/ CategoriesSaved \/ RefreshSleepDone
  \/ AwOpen \/ AwDump \/ AwReplace \/ AwFail \/ Crash

Spec == Init /\ [][Next]_vars

\* ------------------------------------------------------------------------
\* Properties of fetch_until_new
\* ------------------------------------------------------------------------
\* the identities of the attempt whose outcome is o: none when crawl_once raised
AttemptIds(o) == IF o.status = "ok" THEN o.ids ELSE <<>>

AttemptProducts(o) == IF o.status = "ok" THEN o.products ELSE <<>>

\* how many identities of the sequence is are outside the set kn
Novelty(is, kn) == Cardinality({i \in 1..Len(is) : is[i] \notin kn})

\* C1: with min_new >= 1, an attempt of fetch_until_new is accepted (the
\* engine returns at once with that attempt's records, its identities and
\* the 1-based number of the attempt) if and only if the number of the
\* attempt's identities outside known_ids is at least min_new; an attempt
\* that is not accepted leads to a sleep before the loop goes on.
C1_AcceptIffEnoughNew ==
  [][(pc = "attempt" /\ pc' # "crashed" /\ min_new >= 1) =>
       /\ (exit' = "accept") <=> (Novelty(AttemptIds(out'), known_ids) >= min_new)
       /\ (exit' = "accept") =>
            /\ ret' = [products |-> out'.products, ids |-> out'.ids,
                       attempts_used |-> attempt]
            /\ out'.status = "ok"
            /\ fetches' = attempt
            /\ pc' = ReturnPc
       /\ (exit' # "accept") => (pc' \in {"backoff", "cooldown"} /\ ret' = ret)]_vars

\* C1: known_ids = {a}, min_new = 1: the first attempt yielded only a and
\* was retried, the second yielded a and b and was accepted
C1_Witness ==
  /\ exit = "accept"
  /\ min_new = 1
  /\ known_ids = {<<"a">>}
  /\ ret.attempts_used = 2
  /\ ret.ids = <<<<"a">>, <<"b">>>>

\* C2: if no attempt of fetch_until_new has new identities (empty result,
\* known identities only, exception of the collaborator, block event), the
\* engine makes exactly max_retries fetches and returns max_retries as the
\* number of attempts used, without raising.
C2_ExhaustsWithoutRaising ==
  (pc \in {"returned", "raised"} /\ exit # "accept") =>
     /\ exit = "exhaust"
     /\ fetches = max_retries
     /\ ret.attempts_used = max_retries

\* C3: when fetch_until_new uses up max_retries without an acceptance, the
\* records and identities it returns are those of the last attempt, empty
\* when that attempt was a block event or raised, never those of an
\* earlier attempt.
C3_ExhaustReturnsLastAttempt ==
  (exit = "exhaust") =>
     /\ ret.products = AttemptProducts(out)
     /\ ret.ids = AttemptIds(out)

\* ------------------------------------------------------------------------
\* Properties of the harvest run
\* ------------------------------------------------------------------------
\* the identities of a sequence of records
IdSet(ps) == {get_product_id(ps[i]) : i \in 1..Len(ps)}

\* the identities a run finds in a products file when it loads it
StoredIds(file) ==
  IF file.kind = "list" THEN DictKeys(LoadById(file.data, <<>>).dict) ELSE {}

\* the harvest is between the load and the saves after the page loop
InPageLoop ==
  /\ flow = "harvest"
  /\ \/ pc \in {"attempt", "cooldown", "backoff", "merge", "page_saved", "pause",
                "pause_long"}
     \/ pc = "write" /\ aw.cont = "page_saved"

\* C4: an identity of the store loaded at the start of the run, or merged
\* on an earlier page, is not treated as new again: it is left out of
\* new_ids, it is not appended to the page's new products, and it is not
\* counted in total_new_added.
C4_KnownNeverNewAgain ==
  [][(flow = "harvest" /\ pc' # "crashed") =>
       /\ (pc = "attempt" /\ AttemptProducts(out') # <<>>) =>
            /\ \A i \in 1..Len(new_ids') : new_ids'[i] \notin known_ids
            /\ Len(new_ids') = Novelty(out'.ids, known_ids)
       /\ (pc = "merge" /\ ret.products # <<>>) =>
            /\ IdSet(page_new_products') \cap known_ids = {}
            /\ Cardinality(IdSet(page_new_products')) = Len(page_new_products')
            /\ known_ids' = known_ids \cup IdSet(page_new_products')
       /\ (total_new_added' # total_new_added) =>
            /\ pc = "page_saved"
            /\ total_new_added' = total_new_added + Len(page_new_products)
       /\ InPageLoop' =>
            total_new_added' <= Cardinality(known_ids' \ StoredIds(fs'[OUTPUT_FILE]))]_vars

\* C4: with an empty store at the start, page 1 added one record; page 2
\* returned a and b, and only b is new
C4_Witness ==
  /\ flow = "harvest" /\ pc = "pause" /\ page_idx = 2
  /\ fs[OUTPUT_FILE] = Absent
  /\ ret.ids = <<<<"a">>, <<"b">>>>
  /\ page_new_products = <<rB>>
  /\ total_new_added = 2
  /\ known_ids = {<<"a">>, <<"b">>}

\* C5: all_products_by_id and known_ids hold no empty identity, and no
\* record of empty identity is written to the products file: such records
\* are dropped at the load, by the dedup of an attempt and at the merge.
C5_NoEmptyIdentityStored ==
  flow = "harvest" =>
    /\ <<>> \notin known_ids
    /\ <<>> \notin DictKeys(all_products_by_id)
    /\ \A i \in 1..Len(all_products_by_id) :
         get_product_id(all_products_by_id[i][2]) = all_products_by_id[i][1]
    /\ \A i \in 1..Len(out.ids) : out.ids[i] # <<>>
    /\ \A i \in 1..Len(ret.ids) : ret.ids[i] # <<>>
    /\ (pc = "write" /\ aw.path = OUTPUT_FILE) => <<>> \notin IdSet(aw.file.data)
    /\ (pc \in {"products_saved", "done"} \/ (pc = "write" /\ aw.cont = "done")) =>
         <<>> \notin IdSet(fs[OUTPUT_FILE].data)

\* C5: the products file holds a record without identity, which the load
\* dropped; page 1 has merged the record b
C5_Witness ==
  /\ flow = "harvest" /\ pc = "pause" /\ page_idx = 1
  /\ fs[OUTPUT_FILE] = JsonList(<<rNoId>>)
  /\ all_products_by_id = <<<<<<"b">>, rB>>>>
  /\ known_ids = {<<"b">>}

C7_LastMergeWins ==
  [][(flow = "harvest" /\ pc = "merge" /\ pc' # "crashed" /\ ret.products # <<>>) =>
       /\ Len(all_products_by_id') =
            Len(all_products_by_id) + Cardinality(IdSet(ret.products) \ known_ids)
       /\ \A i \in 1..Len(ret.products) :
            DictGet(all_products_by_id', get_product_id(ret.products[i]))
              = ret.products[i]]_vars

\* C8: the products file and the pages index file are written after each
\* page: while page k >= 2 is being fetched, every identity merged on
\* the pages before k is in the products file, and the pages index file
\* holds the lists of those pages.
C8_PersistedAfterEachPage ==
  (flow = "harvest" /\ pc = "attempt" /\ page_idx >= 2) =>
     /\ known_ids \subseteq StoredIds(fs[OUTPUT_FILE])
     /\ fs[PAGES_INDEX_FILE] = JsonObject(pages_index)

\* ------------------------------------------------------------------------
\* Properties of the discovery run and of atomic_write_json
\* ------------------------------------------------------------------------
\* C9: categories.json is rewritten in every refresh, whether or not the
\* refresh found new categories and whether or not its fetch failed, and
\* before the fetch of the next refresh; when the refresh is over the file
\* holds exactly the values of known (a run with refreshes = 0 makes no
\* refresh and writes nothing).
C9_CategoriesSavedEveryRefresh ==
  [][(flow = "discovery" /\ pc' # "crashed") =>
       /\ pc = "d_refresh" =>
            /\ pc' = "write"
            /\ \/ aw'.path = CATEGORIES_FILE /\ aw'.cont = "d_saved"
               \/ aw'.path = RefreshFile(attempt) /\ aw'.cont = "d_fresh_saved"
       /\ pc = "d_fresh_saved" =>
            pc' = "write" /\ aw'.path = CATEGORIES_FILE /\ aw'.cont = "d_saved"
       /\ (pc' = "write" /\ aw'.path = CATEGORIES_FILE) =>
            aw'.file = JsonList(DictValues(known'))
       /\ pc' = "d_saved" => (pc = "write" /\ aw.path = CATEGORIES_FILE)
       /\ pc' = "d_refresh" => pc \in {"d_load", "d_sleep"}
       /\ (\/ pc' \in {"d_saved", "d_sleep"}
           \/ (pc' = "done" /\ pc # "d_load")
           \/ (pc' = "d_refresh" /\ attempt' > 1)) =>
            fs'[CATEGORIES_FILE] = JsonList(DictValues(known'))]_vars

\* C9: the second refresh failed and found nothing new; the file, which
\* held a record under a link that was not canonical, holds the values of
\* known
C9_Witness ==
  /\ flow = "discovery" /\ pc = "d_sleep"
  /\ attempt = 2
  /\ crawl_failed
  /\ no_new_streak = 1
  /\ Len(known) = 2
  /\ fs[CATEGORIES_FILE] = JsonList(DictValues(known))
  /\ fs[RefreshFile(1)] # Absent

\* C10: atomic_write_json is atomic for the final path: at every point of
\* a write, and after a crash at any point of it, a final path holds the
\* complete content it had before or the complete new content, never a
\* partly written file, so that a run which loads it reads valid JSON.
C10_FinalPathNeverPartial ==
  [][\A p \in FinalPaths :
       /\ fs'[p].kind # "partial"
       /\ ~load_json_if_exists(fs'[p], JsonList(<<>>)).raised
       /\ fs'[p] # fs[p] =>
            /\ pc = "write" /\ aw.step = "replace" /\ aw.path = p
            /\ fs'[p] = aw.file]_vars

\* C10: the run was terminated while the temporary file of the products
\* file was partly written; the products file holds its previous content
C10_Witness ==
  /\ pc = "crashed"
  /\ fs[TmpOf(OUTPUT_FILE)] = Partial
  /\ fs[OUTPUT_FILE] = JsonList(<<rA1>>)

\* ------------------------------------------------------------------------
\* Properties of the error handling
\* ------------------------------------------------------------------------
\* C11: an I/O error raised while a file is persisted (products, pages
\* index, per-page file, categories, refresh snapshot) is not absorbed: it
\* leaves the run, and nothing is fetched or written after it.
C11_StorageErrorEndsRun ==
  [][/\ (pc = "write" /\ aw'.step = "error") =>
          /\ pc' = "raised"
          /\ fs' = fs
          /\ fetches' = fetches /\ attempt' = attempt /\ page_idx' = page_idx
     /\ pc # "raised"]_vars

\* C11: the write of the file of page 1 failed in a harvest of two pages;
\* page 2 is not fetched
C11_Witness ==
  /\ flow = "harvest" /\ pc = "raised"
  /\ aw.step = "error" /\ aw.path = PageFile(1)
  /\ page_idx = 1 /\ total_pages = 2

\* C12: an exception of the collaborator during an attempt is caught at
\* that attempt and stands for zero records; it uses up one attempt and
\* ends neither the page nor the run.  In the discovery run a failed
\* refresh gives zero categories, uses up one refresh and counts as a
\* refresh without new categories for the streak.
C12_FetchFailureAbsorbed ==
  [][(pc' # "crashed") =>
       /\ (pc = "attempt" /\ out'.status = "Exception") =>
            /\ products' = <<>> /\ ids' = <<>>
            /\ fetches' = fetches + 1 /\ attempt' = attempt
            /\ exit' = exit
            /\ pc' = "backoff"
       /\ (pc = "backoff" /\ out.status = "Exception") =>
            /\ attempt < max_retries => (attempt' = attempt + 1 /\ pc' = "attempt")
            /\ attempt = max_retries =>
                 /\ exit' = "exhaust"
                 /\ ret' = [products |-> <<>>, ids |-> <<>>, attempts_used |-> max_retries]
                 /\ pc' = ReturnPc
       /\ (flow = "harvest" /\ pc = "merge" /\ out.status = "Exception") =>
            (pc' = "pause_long" /\ known_ids' = known_ids)
       /\ (pc = "d_refresh" /\ crawl_failed') =>
            /\ known' = known /\ fresh' = <<>>
            /\ no_new_streak' = no_new_streak + 1
            /\ attempt' = attempt
            /\ pc' = "write" /\ aw'.path = CATEGORIES_FILE]_vars

\* C12: every attempt of page 1 of 2 raised; the five attempts are used
\* up and the run is in the pause before page 2
C12_Witness ==
  /\ flow = "harvest" /\ pc = "pause_long"
  /\ page_idx = 1 /\ total_pages = 2
  /\ out.status = "Exception"
  /\ fetches = MAX_RETRIES
  /\ ret.attempts_used = MAX_RETRIES


C14_BlockedWithRecordsAccepted ==
  [][(pc = "attempt" /\ pc' # "crashed" /\ out'.blocked /\ out'.products # <<>>) =>
       /\ out'.status = "ok"
       /\ [out' EXCEPT !.blocked = FALSE] \in outcomes
       /\ pc' # "cooldown" /\ cooldown' = 0
       /\ products' = out'.products /\ ids' = out'.ids
       /\ (Novelty(out'.ids, known_ids) >= min_new) =>
            /\ exit' = "accept"
            /\ ret' = [products |-> out'.products, ids |-> out'.ids,
                       attempts_used |-> attempt]
            /\ pc' = ReturnPc
       /\ (Novelty(out'.ids, known_ids) < min_new) =>
            (pc' = "backoff" /\ exit' = exit /\ ret' = ret)]_vars

\* C14: the first attempt of page 1 had blocked markup and records with a
\* new identity, and was accepted
C14_Witness ==
  /\ flow = "harvest"
  /\ pc = "merge"
  /\ page_idx = 1
  /\ exit = "accept"
  /\ out.blocked
  /\ out.status = "ok"
  /\ ret.attempts_used = 1
  /\ ret.products = out.products
  /\ ret.products # <<>>
  /\ fetches = 1


\* ------------------------------------------------------------------------
\* Properties of the refresh loop
\* ------------------------------------------------------------------------

\* C15: in a discovery run that no storage error or crash has ended, a
\* refresh that adds a category sets no_new_streak to 0 and one that adds
\* none adds 1 to it, and nothing else changes it; once refresh k has saved
\* categories.json, refresh k + 1 starts if k < refreshes and no_new_streak <
\* STOP_AFTER_NO_NEW_STREAK, and otherwise the run ends without another
\* refresh; the first refresh starts if and only if 1 <= refreshes.
C15_StreakDecidesNextRefresh ==
  [][(flow = "discovery" /\ pc' \notin {"crashed", "raised"}) =>
       /\ (pc = "d_refresh") =>
            /\ (DictKeys(known') # DictKeys(known)) <=> (fresh' # <<>>)
            /\ (fresh' # <<>>) => (no_new_streak' = 0)
            /\ (fresh' = <<>>) => (no_new_streak' = no_new_streak + 1)
            /\ attempt' = attempt
       /\ (pc \notin {"d_refresh", "d_load"}) => (no_new_streak' = no_new_streak)
       /\ (pc = "d_load") =>
            /\ no_new_streak' = 0
            /\ (pc' = "d_refresh") <=> (1 <= refreshes)
            /\ (pc' = "d_refresh") => (attempt' = 1)
            /\ (pc' # "d_refresh") => (pc' = "done")
       /\ (pc = "d_saved") =>
            /\ (pc' = "done") <=> (no_new_streak >= STOP_AFTER_NO_NEW_STREAK)
            /\ (pc' # "done") => (pc' = "d_sleep")
            /\ attempt' = attempt
       /\ (pc = "d_sleep") =>
            /\ no_new_streak < STOP_AFTER_NO_NEW_STREAK
            /\ (pc' = "d_refresh") <=> (attempt < refreshes)
            /\ (pc' = "d_refresh") => (attempt' = attempt + 1)
            /\ (pc' # "d_refresh") => (pc' = "done" /\ attempt' = attempt)
       /\ (pc' = "d_refresh" /\ pc # "d_refresh") => (pc \in {"d_load", "d_sleep"})
       /\ (pc = "done") => (pc' = "done")]_vars

\* C15: a run allowed more refreshes than STOP_AFTER_NO_NEW_STREAK stopped
\* after that many refreshes in a row added nothing, before the last refresh
\* it was allowed
C15_Witness ==
  /\ flow = "discovery"
  /\ pc = "done"
  /\ no_new_streak = STOP_AFTER_NO_NEW_STREAK
  /\ attempt = STOP_AFTER_NO_NEW_STREAK
  /\ attempt < refreshes
  /\ fs[CATEGORIES_FILE] = JsonList(DictValues(known))


\* ------------------------------------------------------------------------
\* Properties of the page loop
\* ------------------------------------------------------------------------

\* C16: retry exhaustion never ends the harvest: while fetch_until_new runs
\* for page p the only way out of it is its return to the orchestrator, and
\* after the return the orchestrator either works on page p or starts page
\* p + 1 with a fresh call of the engine, until page total_pages is done; no
\* page is started twice or skipped.
C16_ExhaustionNeverEndsRun ==
  [][(flow = "harvest" /\ pc' # "crashed" /\ ~(pc = "write" /\ pc' = "raised")) =>
       /\ (pc \in {"attempt", "cooldown", "backoff"}) =>
            (pc' \in {"attempt", "cooldown", "backoff", "merge"} /\ page_idx' = page_idx)
       /\ (pc \in {"pause", "pause_long"} /\ page_idx < total_pages) =>
            (page_idx' = page_idx + 1 /\ pc' = "attempt" /\ attempt' = 1 /\ fetches' = 0)
       /\ (page_idx' # page_idx) =>
            (page_idx' = page_idx + 1 /\ pc' = "attempt" /\ page_idx' <= total_pages')
       /\ (pc' = "products_saved") => (page_idx = total_pages)]_vars


\* ------------------------------------------------------------------------
\* Properties of the pagination planner
\* ------------------------------------------------------------------------
\* the total the planner parsed from the response it was given
ParsedTotal == parse_total_items_from_html(FirstHtml(plan_resp.results))

\* the value of the query parameter key in the URL u, as a number
ParamValue(u, key) == int(DictGet(u.query, key)).value

\* C17: when the first-page fetch returned and the parsed total_items is
\* positive, the planner's page count is the least n >= 1 with n *
\* PRODUCTS_PER_PAGE >= total_items, PRODUCTS_PER_PAGE being 40, and the
\* orchestrator's urls are one URL per page 1..page_count, in order: the
\* category URL with the parameter page set once to the page number.
C17_PageCountIsCeiling ==
  (flow = "planner" /\ pc = "planned" /\ ~plan_resp.raised /\ ParsedTotal > 0) =>
     /\ PRODUCTS_PER_PAGE = 40
     /\ total_pages >= 1
     /\ total_pages * PRODUCTS_PER_PAGE >= ParsedTotal
     /\ (total_pages - 1) * PRODUCTS_PER_PAGE < ParsedTotal
     /\ Len(urls) = total_pages
     /\ \A k \in 1..Len(urls) :
          /\ urls[k].base = link.base
          /\ Cardinality({i \in 1..Len(urls[k].query) : urls[k].query[i][1] = PAGE_PARAM}) = 1
          /\ ParamValue(urls[k], PAGE_PARAM) = k

\* C17: 41 items were parsed and two page URLs were built from a category
\* URL that already had a page parameter
C17_Witness ==
  /\ flow = "planner"
  /\ pc = "planned"
  /\ ParsedTotal = PRODUCTS_PER_PAGE + 1
  /\ total_pages = 2
  /\ PAGE_PARAM \in DictKeys(link.query)
  /\ Len(urls) = 2

\* C18: with 1114 items parsed and 40 items per page the planner yields 29
\* pages.
C18_Pages29For1114 ==
  (flow = "planner" /\ pc = "planned" /\ ~plan_resp.raised /\ ParsedTotal = 1114) =>
     total_pages = 29

\* C18, as the code computes it: with 1114 items parsed and 40 items per
\* page the planner yields 28 pages (28 * 40 = 1120 >= 1114 > 27 * 40).
C18_Pages28For1114 ==
  (flow = "planner" /\ pc = "planned" /\ ~plan_resp.raised /\ ParsedTotal = 1114) =>
     (total_pages = 28 /\ PRODUCTS_PER_PAGE = 40)

\* C18: the markup said "1,114 items found" and the plan was made
C18_Witness ==
  /\ flow = "planner"
  /\ pc = "planned"
  /\ plan_resp.results = <<[none |-> FALSE, html |-> <<Place(1, <<"1", ",", "1", "1", "4">>)>>]>>
  /\ ParsedTotal = 1114
  /\ Len(urls) = total_pages

\* the numbers the patterns capture in the markup h
YieldsOf(h) ==
  {int(replace(replace(h[i].raw, ","), ".")).value :
     i \in {j \in 1..Len(h) : h[j].pat # 0 /\ replace(replace(h[j].raw, ","), ".") # <<>>}}

NoMarkup(results) == \A i \in 1..Len(results) : results[i].none \/ results[i].html = <<>>

\* C19: detect_total_pages always returns, with a page count of at least 1;
\* it returns 1 when the first-page fetch raised, when no result has
\* markup, and when no pattern captures a positive number in the markup.
C19_PlannerDegradesToOne ==
  [][(flow = "planner" /\ pc = "plan") =>
       /\ pc' = "planned"
       /\ total_pages' >= 1
       /\ Len(urls') >= 1
       /\ (\/ plan_resp.raised
           \/ NoMarkup(plan_resp.results)
           \/ \A v \in YieldsOf(FirstHtml(plan_resp.results)) : v <= 0)
            => (total_pages' = 1)]_vars

\* C19: the first-page fetch raised and the plan is one page
C19_Witness ==
  /\ flow = "planner"
  /\ pc = "planned"
  /\ plan_resp.raised
  /\ total_pages = 1
  /\ Len(urls) = 1


\* ------------------------------------------------------------------------
\* Properties of the link canonicalization
\* ------------------------------------------------------------------------

\* C20: canonicalization is idempotent: canonicalizing the canonical_url of
\* a link again, against the same base, returns the same canonical_url and
\* the same dedupe key.
C20_CanonicalizeIdempotent ==
  (flow = "canon" /\ pc = "c_twice") =>
     /\ canon.twice.canonical_url = canon.once.canonical_url
     /\ canon.twice.key = canon.once.key


\* the link as the canonicalizer parses it: the href joined to the base,
\* without its fragment
Resolved ==
  urldefrag(urljoin(canon.base,
                    IF canon.href.scheme = "" /\ canon.href.netloc # <<>>
                      THEN [canon.href EXCEPT !.scheme = "https"] ELSE canon.href))

\* the positions of the whitelisted parameters of q with a non-blank value
Whitelisted(q) ==
  {i \in 1..Len(q) : q[i][1] \in whitelist /\ ValueStrip(q[i][2]) # <<>>}

\* the place of a whitelisted key in the alphabet
KeyRank(k) == CHOOSE i \in 1..Len(WhitelistOrder) : WhitelistOrder[i] = k

SortedByKey(q) ==
  \A i \in 1..Len(q) : \A j \in 1..Len(q) : i < j => KeyRank(q[i][1]) < KeyRank(q[j][1])

GenericCanonical ==
  /\ flow = "canon" /\ pc \in {"c_once", "c_twice"}
  /\ canon.href # EmptyUrl
  /\ canon.once.canonical_url.path \in generic_paths

SpecificCanonical ==
  /\ flow = "canon" /\ pc \in {"c_once", "c_twice"}
  /\ canon.href # EmptyUrl
  /\ LET path == canon.once.canonical_url.path
     IN ~(Len(path) = 2 /\ path[1] = "/"
          /\ path[2] \in {"catalog", "search", "category", "categories"})

\* C22: for a link whose normalized path is specific, canonical_url and
\* dedupe key have no query at all, whatever the link's parameters are:
\* whitelisted ones and a category id in a params JSON are dropped too.
C22_SpecificDropsQuery ==
  SpecificCanonical =>
     /\ canon.once.canonical_url.query = <<>>
     /\ canon.once.key.qs = <<>>
     /\ canon.once.canonical_url.fragment = ""

\* C22: /sanders?ref=123 against https://www.daraz.com.bd/ became
\* https://www.daraz.com.bd/sanders
C22_Witness ==
  /\ flow = "canon" /\ pc = "c_once"
  /\ canon.base = HOMEPAGE_URL
  /\ canon.href = hSanders123
  /\ canon.once.canonical_url =
       Url("https", <<"www", "daraz", "com", "bd">>, <<"/", "sanders">>, <<>>, "")
  /\ canon.once.key = Key(<<"daraz", "com", "bd">>, <<"/", "sanders">>, <<>>)

\* C22: a specific path whose link had a whitelisted parameter and a params
\* JSON with a category id
C22_WitnessWhitelisted ==
  /\ SpecificCanonical
  /\ Whitelisted(Resolved.query) # {}


\* what a link keeps when host letter case, a leading "www.", duplicated
\* slashes, one trailing slash, the fragment and the parameters that are
\* neither whitelisted nor the params object are taken away; the path is the
\* text of the link's path, ";" included
Surface(base, href) ==
  LET r == urldefrag(urljoin(base,
                             IF href.scheme = "" /\ href.netloc # <<>>
                               THEN [href EXCEPT !.scheme = "https"] ELSE href))
      c == CollapseSlashes(IF r.path = <<>> THEN <<"/">> ELSE r.path)
  IN [host |-> StripWww(LowerHost(r.netloc)),
      path |-> IF Len(c) > 1 /\ c[Len(c)] = "/" THEN SubSeq(c, 1, Len(c) - 1) ELSE c,
      query |-> SelectSeq(r.query, LAMBDA kv : kv[1] \in whitelist \cup {"params"})]

\* the whitelisted category ids of a link: key to trimmed value, last wins
CategoryIds(surface) ==
  ToDict([i \in 1..Len(surface.query) |->
            <<surface.query[i][1], ValueStrip(surface.query[i][2])>>], <<>>)

GenericLink(surface) ==
  /\ surface.path \in generic_paths
  /\ \A i \in 1..Len(surface.query) :
        surface.query[i][1] \in whitelist /\ ValueStrip(surface.query[i][2]) # <<>>

\* the links of Hrefs that differ from the canonicalized one in surface only
SurfaceVariants ==
  {h \in Hrefs \ {EmptyUrl} : Surface(canon.base, h) = Surface(canon.base, canon.href)}

\* C23: two links that differ only in host letter case, a leading "www.",
\* one trailing slash, duplicated slashes, a fragment or non-whitelisted
\* parameters have the same dedupe key; two generic-path links that differ
\* in a whitelisted category id have different dedupe keys.
C23_SurfaceVariantsShareKey ==
  (flow = "canon" /\ pc = "c_once" /\ canon.href # EmptyUrl) =>
     /\ \A h \in SurfaceVariants :
           canonicalize_category_link(canon.base, h).key = canon.once.key
     /\ \A h \in Hrefs \ {EmptyUrl} :
           LET s1 == Surface(canon.base, canon.href)
               s2 == Surface(canon.base, h)
           IN (/\ GenericLink(s1) /\ GenericLink(s2)
               /\ s1.host = s2.host /\ s1.path = s2.path
               /\ CategoryIds(s1) # CategoryIds(s2))
              => canonicalize_category_link(canon.base, h).key # canon.once.key

\* the same statement for links whose path holds no ";"
C23_ShareKeyWithoutPathParams ==
  (\A i \in 1..Len(canon.href.path) : canon.href.path[i] # ";")
     => C23_SurfaceVariantsShareKey

\* a link with a surface variant written differently and a link with a
\* generic-path sibling of another category id have been canonicalized
C23_Witness ==
  /\ flow = "canon" /\ pc = "c_once"
  /\ canon.href = hSandersAlt
  /\ hSanders \in SurfaceVariants
  /\ canon.once.key = canonicalize_category_link(canon.base, hSanders).key

C23_WitnessOtherCategory ==
  /\ flow = "canon" /\ pc = "c_once"
  /\ canon.href = hCat10
  /\ canon.once.key # canonicalize_category_link(canon.base, hCat20).key
  /\ canon.once.key.path = <<"/", "catalog">>


\* the part of s before its first "_", the whole of s when it has none
PrefixBeforeUnderscore(s) ==
  LET at == {i \in 1..Len(s) : s[i] = "_"}
  IN IF at = {} THEN s
     ELSE SubSeq(s, 1, (CHOOSE i \in at : \A j \in at : i <= j) - 1)

\* the text of a field that holds a string or nothing
FieldText(v) == IF v.kind = "str" THEN v.s ELSE <<>>

\* a record whose two fields hold a string or nothing has been resolved twice
ResolvedTextRecord ==
  /\ flow = "resolver" /\ pc = "r_twice"
  /\ resolver.product.mapping
  /\ resolver.product.data_item_id.kind \in {"str", "none"}
  /\ resolver.product.data_sku_simple.kind \in {"str", "none"}

ResolverLeavesNoTrace ==
  /\ resolver.second = resolver.first
  /\ resolver.product \in ResolverRecords
  /\ all_products_by_id = <<>> /\ known_ids = {} /\ pages_index = EmptyIndex
  /\ \A p \in Paths : fs[p] = Absent

C24_WitnessPrimary ==
  /\ ResolvedTextRecord
  /\ resolver.product = Rec(StrV(<<" ", "b", " ">>), StrV(<<"a", "_", "x">>))
  /\ resolver.first = <<"b">>

C24_WitnessNoIdentity ==
  /\ ResolvedTextRecord
  /\ resolver.product = Rec(NoneV, StrV(<<" ", "_", "x">>))
  /\ resolver.first = <<>>


\* C25: get_product_id returns a string, never raises, for any record: one
\* whose primary or secondary field holds a non-string, or one that is not
\* a mapping.
C25_ResolverTotal ==
  (flow = "resolver" /\ pc \in {"r_once", "r_twice"}) => resolver.first # Raised

\* the same statement for mappings whose fields hold a string or a falsy
\* value
C25_TotalOnTextRecords ==
  (/\ flow = "resolver" /\ pc \in {"r_once", "r_twice"}
   /\ resolver.product.mapping
   /\ resolver.product.data_item_id.kind \in {"str", "none", "zero"}
   /\ resolver.product.data_sku_simple.kind \in {"str", "none", "zero"})
     => resolver.first # Raised


\* a step of the run that is not its termination from outside
RunStep == pc' # pc /\ pc' # "crashed"

\* C26: one thread of control makes every fetch: a fetch is made only at
\* the attempt position, never while a backoff, a cooldown or an inter-page
\* pause is pending; the page number moves by one, and only when the pause
\* of the page before has ended (no attempt of page p+1 before the sleep of
\* page p is over); the refresh number of discovery moves by one, and only
\* when the sleep of the refresh before has ended.
C26_OneFetchAtATime ==
  [][RunStep =>
       /\ (fetches' = fetches + 1) => (pc = "attempt" /\ out' \in outcomes)
       /\ (flow = "harvest" /\ pc \in {"cooldown", "backoff", "pause", "pause_long"})
             => (fetches' \in {fetches, 0} /\ out' \in {out, NoOutcome})
       /\ (flow = "harvest" /\ page_idx' # page_idx)
             => (/\ pc \in {"plan", "pause", "pause_long"}
                 /\ page_idx' = page_idx + 1
                 /\ pc' = "attempt" /\ fetches' = 0 /\ attempt' = 1)
       /\ (flow = "discovery" /\ (fresh' # fresh \/ crawl_failed' # crawl_failed
                                   \/ known' # known))
             => pc \in {"d_load", "d_refresh"}
       /\ (flow = "discovery" /\ attempt' # attempt)
             => (/\ pc \in {"d_load", "d_sleep"}
                 /\ attempt' = attempt + 1
                 /\ pc' = "d_refresh")]_vars

\* the second page is being fetched after a non-accepted attempt and its
\* backoff, the first page merged
C26_Witness ==
  /\ flow = "harvest" /\ pc = "attempt"
  /\ page_idx = 2 /\ attempt = 2 /\ fetches = 1
  /\ 1 \in DOMAIN pages_index

\* the second refresh of discovery is about to fetch
C26_WitnessRefresh ==
  /\ flow = "discovery" /\ pc = "d_refresh" /\ attempt = 2


\* C27: whatever the attempts produce, one call of fetch_until_new makes at
\* most max_retries fetches; an accepted attempt ends the call (no fetch is
\* possible after it); the number of attempts returned with an acceptance
\* is the number of the accepted attempt, which is the number of fetches
\* made, between 1 and max_retries.
C27_FetchesBoundedAcceptFirst ==
  (flow = "engine") =>
     /\ fetches <= max_retries
     /\ fetches = (IF pc = "attempt" THEN attempt - 1 ELSE attempt)
     /\ (exit = "accept") =>
          /\ pc = "returned"
          /\ ~ENABLED NextEngine
          /\ ret.attempts_used = fetches
          /\ 1 <= ret.attempts_used /\ ret.attempts_used <= max_retries
          /\ out.status = "ok"
          /\ ret.products = out.products

\* two attempts that were not accepted, then the accepted third and last
C27_Witness ==
  /\ flow = "engine" /\ exit = "accept"
  /\ max_retries = 3 /\ fetches = 3 /\ ret.attempts_used = 3
  /\ known_ids = {<<"a">>}
  /\ ret.ids = <<<<"b">>, <<"a">>>>

\* an acceptance before the attempts are used up
C27_WitnessEarly ==
  /\ flow = "engine" /\ exit = "accept"
  /\ max_retries = 3 /\ fetches = 2 /\ ret.attempts_used = 2


\* C28: the acceptance test is applied to every attempt that is not a
\* block event: with min_new = 0 an attempt without records is accepted at
\* once and its number is returned as the number of attempts used.
C28_EmptyAttemptAcceptedAtZero ==
  [][(/\ flow = "engine" /\ pc = "attempt" /\ min_new = 0
      /\ ~IsBlockEvent(out') /\ AttemptProducts(out') = <<>>)
       => (/\ exit' = "accept"
           /\ pc' = "returned"
           /\ ret' = [products |-> <<>>, ids |-> <<>>, attempts_used |-> attempt])]_vars

\* the same statement for the attempts that produced records
C28_NonEmptyAttemptAcceptedAtZero ==
  [][(/\ flow = "engine" /\ pc = "attempt" /\ min_new = 0
      /\ ~IsBlockEvent(out') /\ AttemptProducts(out') # <<>>)
       => (/\ exit' = "accept"
           /\ pc' = "returned"
           /\ ret'.attempts_used = attempt)]_vars


\* the fragments of the response crawl_once reads: those marked successful
SuccessfulFragments == SelectSeq(crawl.resp.results, LAMBDA r : r.success)

\* the records the successful fragments of the response decode to
RECURSIVE DecodedRecords(_)
DecodedRecords(results) ==
  IF results = <<>> THEN <<>>
  ELSE (IF Head(results).extracted_content.kind = "invalid" THEN <<>>
        ELSE Head(results).extracted_content.items) \o DecodedRecords(Tail(results))

\* the response was fetched, some successful fragment has block markup and
\* every decoded record is a mapping with text fields and an empty identity
BlockedWithoutUsableRecords ==
  /\ flow = "crawl" /\ pc = "k_done"
  /\ ~crawl.resp.raised
  /\ \E i \in 1..Len(SuccessfulFragments) : looks_blocked(SuccessfulFragments[i].html)
  /\ \A r \in Range(DecodedRecords(SuccessfulFragments)) : get_product_id(r) = <<>>

\* C29: an attempt whose markup looks blocked and whose decoded records all
\* have an empty identity is a block event (crawl_once raises BlockedError,
\* which the engine answers with the cooldown), not an empty attempt.
C29_BlockTestOnUsableRecords ==
  BlockedWithoutUsableRecords => IsBlockEvent(crawl.out)

\* the same statement for the attempts that decoded no record at all
C29_BlockTestWithoutRecords ==
  (BlockedWithoutUsableRecords /\ DecodedRecords(SuccessfulFragments) = <<>>)
     => IsBlockEvent(crawl.out)

C29_WitnessNoRecords ==
  /\ BlockedWithoutUsableRecords
  /\ DecodedRecords(SuccessfulFragments) = <<>>
  /\ crawl.out.status = "BlockedError"


\* a payload that does not decode to a record or a list of records: not
\* JSON, or JSON with an item that is not a mapping
Undecodable(c) == c.kind = "invalid" \/ \E i \in 1..Len(c.items) : ~c.items[i].mapping

\* the response with every undecodable payload of a successful fragment
\* replaced by one that holds no record; markup and the other fragments stay
SkipUndecodable(resp) ==
  [resp EXCEPT !.results =
     [i \in 1..Len(resp.results) |->
        IF resp.results[i].success /\ Undecodable(resp.results[i].extracted_content)
          THEN [resp.results[i] EXCEPT !.extracted_content = [kind |-> "list", items |-> <<>>]]
          ELSE resp.results[i]]]

\* the response was crawled and has a successful fragment with such a payload
HasUndecodableFragment ==
  /\ flow = "crawl" /\ pc = "k_done"
  /\ ~crawl.resp.raised
  /\ \E i \in 1..Len(crawl.resp.results) :
        crawl.resp.results[i].success /\ Undecodable(crawl.resp.results[i].extracted_content)

\* C30: a fragment whose payload is not a record or a list of records
\* (invalid JSON, or JSON that decodes to something else) is skipped on its
\* own: crawl_once ends as it would have if that fragment had held no record,
\* with the records of the other successful fragments.
C30_UndecodableFragmentSkipped ==
  HasUndecodableFragment => crawl.out = crawl_once(SkipUndecodable(crawl.resp))

\* the same statement for payloads that are not JSON
C30_InvalidJsonSkipped ==
  (/\ HasUndecodableFragment
   /\ \A i \in 1..Len(crawl.resp.results) :
         Undecodable(crawl.resp.results[i].extracted_content)
            => crawl.resp.results[i].extracted_content.kind = "invalid")
     => crawl.out = crawl_once(SkipUndecodable(crawl.resp))

C30_WitnessInvalidJson ==
  /\ HasUndecodableFragment
  /\ crawl.resp.results[1].extracted_content.kind = "invalid"
  /\ Len(crawl.resp.results) = 2
  /\ crawl.out.status = "ok"
  /\ crawl.out.ids = <<<<"a">>, <<"b">>>>


\* C31: when the orchestrator has processed the return of the engine for
\* page page_idx, pages_index[page_idx] is the identity list the engine
\* returned for that page, the empty list included; a list an earlier run
\* recorded for the page is not kept.
C31_PageIndexHoldsReturnedIds ==
  [][(flow = "harvest" /\ pc = "merge" /\ pc' # "crashed") =>
       /\ page_idx \in DOMAIN pages_index'
       /\ pages_index'[page_idx] = ret.ids]_vars

\* the same statement for the pages whose engine call returned records
C31_PageIndexOfYieldingPage ==
  [][(flow = "harvest" /\ pc = "merge" /\ pc' # "crashed" /\ ret.products # <<>>) =>
       /\ page_idx \in DOMAIN pages_index'
       /\ pages_index'[page_idx] = ret.ids]_vars

\* the list of an earlier run is still recorded for a page that yielded
\* nothing in this run
C31_StaleListKept ==
  /\ flow = "harvest" /\ pc = "pause_long"
  /\ page_idx = 1 /\ ret.ids = <<>>
  /\ 1 \in DOMAIN pages_index /\ pages_index[1] = <<<<"a">>>>


\* C32: every exponential backoff sleep of fetch_until_new is followed by a
\* further attempt on the same page; after the last attempt that was not
\* accepted the engine returns without sleeping.
C32_BackoffOnlyBetweenAttempts ==
  [][(flow = "engine" /\ pc = "backoff") => (pc' = "attempt" /\ attempt' = attempt + 1)]_vars

\* the same statement for the attempts before the last
C32_BackoffBeforeLastAttempt ==
  [][(flow = "engine" /\ pc = "backoff" /\ attempt < max_retries)
       => (pc' = "attempt" /\ attempt' = attempt + 1)]_vars

\* the backoff sleep after the last attempt, the return after it
C32_SleepBeforeReturn ==
  /\ flow = "engine" /\ pc = "returned" /\ exit = "exhaust"
  /\ max_retries = 1 /\ fetches = 1


\* a protocol-relative link (no scheme, an authority) has been canonicalized
ProtocolRelative ==
  /\ flow = "canon" /\ pc \in {"c_once", "c_twice"}
  /\ canon.href.scheme = "" /\ canon.href.netloc # <<>>

\* C33: a protocol-relative href is resolved with the scheme of the base:
\* http against an http base, https against an https base.
C33_ProtocolRelativeTakesBaseScheme ==
  ProtocolRelative => canon.once.canonical_url.scheme = canon.base.scheme

\* the same statement against the https bases
C33_ProtocolRelativeOnHttpsBase ==
  (ProtocolRelative /\ canon.base.scheme = "https")
     => canon.once.canonical_url.scheme = "https"

\* //WWW.Daraz.com.bd//sanders/#top against the http base came out as https
C33_HttpsOnHttpBase ==
  /\ ProtocolRelative
  /\ canon.base = HttpBase /\ canon.href = hSandersAlt
  /\ canon.once.canonical_url.scheme = "https"


\* a generic-path link whose params JSON holds a category id
GenericWithFallback ==
  /\ GenericCanonical
  /\ CatFromParams(Resolved.query) # <<>>

\* the canonical query is the category id of the params JSON, under categoryId
FallbackInjected ==
  canon.once.canonical_url.query
     = <<<<"categoryId", Text(CatFromParams(Resolved.query))>>>>

\* the canonical query holds the link's own whitelisted parameters only
OwnParametersOnly ==
  LET q == Resolved.query
      c == canon.once.canonical_url.query
  IN {<<c[j][1], c[j][2].s>> : j \in 1..Len(c)}
       = {<<q[i][1], ValueStrip(q[i][2])>> : i \in Whitelisted(q)}

\* C34: the fallback category id is injected under categoryId if and only
\* if no whitelist key is a query parameter of the link; a whitelist key
\* with an empty value is enough to keep the fallback out.
C34_FallbackIffNoWhitelistKey ==
  GenericWithFallback =>
     IF \A i \in 1..Len(Resolved.query) : Resolved.query[i][1] \notin whitelist
       THEN FallbackInjected
       ELSE OwnParametersOnly

\* what the code does: the fallback is injected if and only if no whitelist
\* key is a query parameter of the link with a non-blank value
C34_FallbackIffNoWhitelistValue ==
  GenericWithFallback =>
     IF Whitelisted(Resolved.query) = {}
       THEN FallbackInjected
       ELSE OwnParametersOnly

\* /catalog?cat=%20&params={"catId": " 10"}: the blank cat did not keep
\* the fallback out
C34_Witness ==
  /\ GenericWithFallback
  /\ \E i \in 1..Len(Resolved.query) : Resolved.query[i][1] = "cat"
  /\ Whitelisted(Resolved.query) = {}
  /\ canon.once.canonical_url.query = <<<<"categoryId", Text(<<"1", "0">>)>>>>

\* /catalog?cat=5&params={"catId": "10"}: the link's own id wins
C34_WitnessOwnId ==
  /\ GenericWithFallback
  /\ canon.once.canonical_url.query = <<<<"cat", Text(<<"5">>)>>>>

\* /catalog?x=1&params={"catId": "10"}: no whitelist key at all
C34_WitnessNoKey ==
  /\ GenericWithFallback
  /\ \A i \in 1..Len(Resolved.query) : Resolved.query[i][1] \notin whitelist
  /\ FallbackInjected


\* the markup the planner scanned
ScannedHtml == FirstHtml(plan_resp.results)

\* the patterns of the list that match somewhere in the markup
MatchingPatterns(html) == {html[i].pat : i \in 1..Len(html)} \ {0}

\* the capture of the leftmost match of pattern pat, "," and "." removed
CleanCapture(pat, html) ==
  LET at == {i \in 1..Len(html) : html[i].pat = pat}
      first == CHOOSE i \in at : \A j \in at : i <= j
  IN SelectSeq(html[first].raw, LAMBDA ch : ch \notin {",", "."})

\* the number a string of digits stands for
RECURSIVE Decimal(_)
Decimal(ds) ==
  IF ds = <<>> THEN 0
  ELSE 10 * Decimal(SubSeq(ds, 1, Len(ds) - 1))
         + (CHOOSE k \in 0..9 : DigitChars[k + 1] = ds[Len(ds)])

\* the pages the planner makes of a total
PagesOf(total) ==
  IF total <= 0 THEN 1
  ELSE CHOOSE n \in 1..(total + 1) :
         /\ n * PRODUCTS_PER_PAGE >= total
         /\ \A k \in 1..(n - 1) : k * PRODUCTS_PER_PAGE < total

PlannedFromMatch ==
  /\ flow = "planner" /\ pc = "planned"
  /\ ~plan_resp.raised
  /\ MatchingPatterns(ScannedHtml) # {}

\* C35 (as stated): the first pattern of the list that matches the markup
\* determines the total: the capture of its match with "," and "." removed,
\* parsed as an integer; later patterns count only when no earlier one
\* matches.
C35_FirstMatchingPatternWins ==
  PlannedFromMatch =>
     LET pat == CHOOSE p \in MatchingPatterns(ScannedHtml) :
                  \A o \in MatchingPatterns(ScannedHtml) : p <= o
         clean == CleanCapture(pat, ScannedHtml)
     IN /\ clean # <<>>
        /\ total_pages = PagesOf(Decimal(clean))

\* C35 (amended): the first pattern of the list whose leftmost match has a
\* capture that holds a digit determines the total; a pattern whose capture
\* holds none is passed over, and the total is 0 when every matching
\* pattern is passed over.
C35_FirstParsablePatternWins ==
  PlannedFromMatch =>
     LET parsable == {p \in MatchingPatterns(ScannedHtml) : CleanCapture(p, ScannedHtml) # <<>>}
     IN IF parsable = {} THEN total_pages = PagesOf(0)
        ELSE LET pat == CHOOSE p \in parsable : \A o \in parsable : p <= o
             IN total_pages = PagesOf(Decimal(CleanCapture(pat, ScannedHtml)))

\* "resultCount": 41 comes first in the markup, "1 items found" is first in
\* the list: one page
C35_Witness ==
  /\ PlannedFromMatch
  /\ ScannedHtml = <<Place(3, str(PRODUCTS_PER_PAGE + 1)), Place(1, str(1))>>
  /\ total_pages = 1

\* "." items found, then "total": 41: the first pattern is passed over
C35_WitnessPassedOver ==
  /\ PlannedFromMatch
  /\ ScannedHtml = <<Place(1, <<".">>), Place(4, str(PRODUCTS_PER_PAGE + 1))>>
  /\ total_pages = 2

\* 1,114 items found: 28 pages
C35_WitnessSeparators ==
  /\ PlannedFromMatch
  /\ ScannedHtml = <<Place(1, <<"1", ",", "1", "1", "4">>)>>
  /\ total_pages = 28


\* ------------------------------------------------------------------------
\* C36: the category store only grows, and each entry is its first sighting
\* ------------------------------------------------------------------------
\* The position of the first usable record of a loaded file whose key is k
\* (0 when the file holds none).
UsableAt(existing, i) ==
  /\ existing[i].category_link # EmptyUrl
  /\ Strip(existing[i].category_name) # <<>>
  /\ canonicalize_category_link(HOMEPAGE_URL, existing[i].category_link).canonical_url
       # EmptyUrl

KeyAt(existing, i) ==
  canonicalize_category_link(HOMEPAGE_URL, existing[i].category_link).key

FirstSightingInFile(existing, k) ==
  LET at == {i \in 1..Len(existing) : UsableAt(existing, i) /\ KeyAt(existing, i) = k}
  IN IF at = {} THEN 0 ELSE CHOOSE i \in at : \A j \in at : i <= j

LoadedFile ==
  LET f == load_json_if_exists(fs[CATEGORIES_FILE], JsonList(<<>>))
  IN IF f.value.kind = "list" THEN f.value.data ELSE <<>>

\* Every entry of the store after the load is the first usable record of the
\* file with that key, its name trimmed and its link canonicalized again.
LoadKeepsFirstSighting ==
  \A k \in DictKeys(known') :
    LET i == FirstSightingInFile(LoadedFile, k)
    IN /\ i # 0
       /\ DictGet(known', k) =
            CategoryRecord(Strip(LoadedFile[i].category_name),
                           canonicalize_category_link(HOMEPAGE_URL,
                             LoadedFile[i].category_link).canonical_url)

\* The entries a refresh appends are, in order, the records of its fresh
\* list, under keys the store did not hold, no key twice.
RefreshAppendsFresh ==
  /\ Len(known') = Len(known) + Len(fresh')
  /\ \A i \in 1..Len(known) : known'[i] = known[i]
  /\ \A i \in 1..Len(fresh') :
       /\ known'[Len(known) + i][2] = fresh'[i]
       /\ known'[Len(known) + i][1] \notin DictKeys(known)
       /\ \A j \in 1..Len(fresh') :
            known'[Len(known) + j][1] = known'[Len(known) + i][1] => j = i

\* Each fresh record is the first item of the crawl's list with its key.
FreshIsFirstSighting ==
  \E o \in cat_outcomes :
    LET items == IF o.raised THEN <<>> ELSE o.items
        keyOf(n) == canonicalize_category_link(HOMEPAGE_URL, items[n].category_link).key
    IN \A i \in 1..Len(fresh') :
         \E n \in 1..Len(items) :
           /\ keyOf(n) = known'[Len(known) + i][1]
           /\ \A m \in 1..(n - 1) : keyOf(m) # keyOf(n)
           /\ fresh'[i] =
                CategoryRecord(items[n].category_name,
                  canonicalize_category_link(HOMEPAGE_URL,
                                             items[n].category_link).canonical_url)

StoredEntriesComplete(kn) ==
  \A i \in 1..Len(kn) :
    /\ kn[i][1] # EmptyKey
    /\ kn[i][2].category_name # <<>>
    /\ kn[i][2].category_link # EmptyUrl

C36_WitnessLoad ==
  /\ flow = "discovery" /\ pc = "write" /\ attempt = 1
  /\ fs[CATEGORIES_FILE] = JsonList(<<CategoryRecord(<<" ", "C">>, hCat10)>>)
  /\ Len(known) = 2 /\ known[1][2].category_name = <<"C">>
  /\ Len(fresh) = 1


\* ------------------------------------------------------------------------
\* C37: the pair crawl_once returns is aligned and free of duplicates
\* ------------------------------------------------------------------------
\* The records crawl_once decoded, in fragment order.
Aggregated == DecodedRecords(SuccessfulFragments)

\* The first position of an identity among the decoded records.
FirstOccurrence(id) ==
  CHOOSE n \in 1..Len(Aggregated) :
    /\ get_product_id(Aggregated[n]) = id
    /\ \A m \in 1..(n - 1) : get_product_id(Aggregated[m]) # id

Returned == crawl.out.status = "ok"

\* C37: in the pair (records, identities) that crawl_once returns,
\* identities[i] is the identity of records[i], no identity is empty, none
\* occurs twice, the record kept for an identity is its first occurrence in
\* fragment order, and first occurrences keep their relative order.
C37_ReturnedPairAligned ==
  (flow = "crawl" /\ pc = "k_done" /\ Returned) =>
    LET records == crawl.out.products
        identities == crawl.out.ids
    IN /\ Len(identities) = Len(records)
       /\ \A i \in 1..Len(records) :
            /\ identities[i] = get_product_id(records[i])
            /\ identities[i] \notin {<<>>, Raised}
            /\ \A j \in 1..Len(records) : identities[j] = identities[i] => j = i
            /\ records[i] = Aggregated[FirstOccurrence(identities[i])]
            /\ \A j \in 1..(i - 1) :
                 FirstOccurrence(identities[j]) < FirstOccurrence(identities[i])
       /\ \A n \in 1..Len(Aggregated) :
            get_product_id(Aggregated[n]) # <<>>
              => get_product_id(Aggregated[n]) \in Range(identities)

\* Two fragments name the same identity by different records: the pair
\* holds the first record and the identity once.
C37_Witness ==
  /\ flow = "crawl" /\ pc = "k_done" /\ Returned
  /\ Len(crawl.out.products) = 2 /\ Len(Aggregated) = 4
  /\ \E n \in 2..4 : /\ Aggregated[n] # Aggregated[1]
                     /\ get_product_id(Aggregated[n]) = get_product_id(Aggregated[1])

\* A record without identity is decoded and left out of the pair.
C37_WitnessNoIdentity ==
  /\ flow = "crawl" /\ pc = "k_done" /\ Returned
  /\ \E n \in 1..Len(Aggregated) : get_product_id(Aggregated[n]) = <<>>
  /\ Len(crawl.out.products) = 1


\* ------------------------------------------------------------------------
\* C38: fetch_until_new leaves known_ids and the record store alone
\* ------------------------------------------------------------------------
EnginePositions == {"attempt", "cooldown", "backoff"}

\* C38: fetch_until_new only reads known_ids: no step of it, accepted or
\* rejected, changes known_ids or all_products_by_id; in the page loop they
\* change only at the merge that follows the engine's return, and there they
\* only grow.
C38_EngineReadsKnownIds ==
  [][(flow \in {"engine", "harvest"} /\ pc' # "crashed") =>
       /\ pc \in EnginePositions =>
            (known_ids' = known_ids /\ all_products_by_id' = all_products_by_id)
       /\ (pc # "load" /\ (known_ids' # known_ids
                            \/ all_products_by_id' # all_products_by_id)) =>
            /\ pc = "merge" /\ exit \in {"accept", "exhaust"}
            /\ known_ids \subseteq known_ids'
            /\ DictKeys(all_products_by_id) \subseteq DictKeys(all_products_by_id')]_vars

\* An attempt was rejected although it saw an identity that is not known:
\* the engine backs off and known_ids does not hold that identity.
C38_Witness ==
  /\ flow = "engine" /\ pc = "backoff"
  /\ new_ids # <<>> /\ Len(new_ids) < min_new
  /\ Range(new_ids) \cap known_ids = {}
  /\ Range(new_ids) \cap DictKeys(all_products_by_id) = {}

\* In a harvest run the merge after the engine's return added the
\* identities.
C38_WitnessMerged ==
  /\ flow = "harvest" /\ pc = "pause" /\ page_idx = 1
  /\ ret.ids # <<>> /\ Range(ret.ids) \subseteq known_ids
  /\ fs[OUTPUT_FILE] = Absent


\* ------------------------------------------------------------------------
\* C39: known_ids, the record store and the counter agree between pages
\* ------------------------------------------------------------------------
\* The keys the run loaded: products.json is not written before the page
\* loop ends, so the file still holds what the load read.
KeysAtRunStart ==
  LET f == load_json_if_exists(fs[OUTPUT_FILE], JsonList(<<>>))
  IN DictKeys(LoadById(IF f.value.kind = "list" THEN f.value.data ELSE <<>>, <<>>).dict)

\* The page loop is not in the middle of a page's merge, write and count.
BetweenPageSteps ==
  /\ flow = "harvest"
  /\ pc \in {"attempt", "cooldown", "backoff", "merge", "pause", "pause_long"}

\* C39: in every state of a harvest run between page steps, known_ids is the
\* key set of all_products_by_id, each key is get_product_id of the record
\* stored under it, and total_new_added is the number of keys added to the
\* store since the run started.
C39_StoresAndCounterAgree ==
  BetweenPageSteps =>
    /\ known_ids = DictKeys(all_products_by_id)
    /\ \A i \in 1..Len(all_products_by_id) :
         /\ all_products_by_id[i][1] = get_product_id(all_products_by_id[i][2])
         /\ \A j \in 1..Len(all_products_by_id) :
              all_products_by_id[j][1] = all_products_by_id[i][1] => j = i
    /\ KeysAtRunStart \subseteq known_ids
    /\ total_new_added = Cardinality(known_ids \ KeysAtRunStart)

\* After the second page the store holds a loaded key and keys of this run,
\* and the page returned an identity that was known.
C39_Witness ==
  /\ flow = "harvest" /\ pc = "pause" /\ page_idx = 2
  /\ KeysAtRunStart # {}
  /\ total_new_added >= 1
  /\ Len(page_new_products) < Len(ret.products)

\* While a page's file is being written the store is ahead of the counter.
C39_WitnessMidPage ==
  /\ flow = "harvest" /\ pc = "page_saved"
  /\ total_new_added < Cardinality(known_ids \ KeysAtRunStart)


\* ------------------------------------------------------------------------
\* C40: set_query_param and the parameters it is not asked to set
\* ------------------------------------------------------------------------
\* The pairs of a query under keys other than key, in order.
OtherParameters(query, key) == SelectSeq(query, LAMBDA kv : kv[1] # key)

Occurrences(query, key) == Cardinality({i \in 1..Len(query) : query[i][1] = key})

\* str(int(time.time() * 1000)) of one attempt
Stamp == str(17)

\* the URL fetch_until_new fetches for page k: the page URL with `_v` set
CacheBustedPage(k) == set_query_param(urls[k], "_v", Stamp)

HasRepeatedParameter(query) ==
  \E i, j \in 1..Len(query) : i # j /\ query[i][1] = query[j][1]

\* Every page URL, and its cache-busted form, keeps the listing's own
\* parameters as they are.
OwnParametersIntact ==
  \A k \in 1..Len(urls) :
    /\ urls[k].base = link.base
    /\ OtherParameters(urls[k].query, PAGE_PARAM) = OtherParameters(link.query, PAGE_PARAM)
    /\ CacheBustedPage(k).base = link.base
    /\ OtherParameters(CacheBustedPage(k).query, "_v") = urls[k].query

\* Every page URL holds `page` once, with the page number, and its
\* cache-busted form holds `_v` once.
OnePageOneStamp ==
  \A k \in 1..Len(urls) :
    /\ Occurrences(urls[k].query, PAGE_PARAM) = 1
    /\ \E i \in 1..Len(urls[k].query) : urls[k].query[i] = <<PAGE_PARAM, str(k)>>
    /\ Occurrences(CacheBustedPage(k).query, PAGE_PARAM) = 1
    /\ Occurrences(CacheBustedPage(k).query, "_v") = 1

Planned == flow = "planner" /\ pc = "planned"

\* C40: set_query_param sets or replaces exactly the parameter it is given
\* and preserves every other parameter of the URL, those that occur more than
\* once included; so the page URLs and their cache-busted forms keep the
\* listing's own parameters and hold exactly one `page` and at most one `_v`.
C40_OtherParametersPreserved ==
  Planned => (OwnParametersIntact /\ OnePageOneStamp)

\* What the code does: the parameters are preserved when no key other than
\* the one being set occurs twice in the listing URL; `page` and `_v` occur
\* once in every case.
C40_PreservedWhenNotRepeated ==
  Planned =>
    /\ OnePageOneStamp
    /\ ~HasRepeatedParameter(OtherParameters(link.query, PAGE_PARAM)) => OwnParametersIntact

\* A listing URL with `color` twice: the page URL holds it once.
C40_RepeatedParameterCollapsed ==
  /\ Planned /\ Len(urls) >= 2
  /\ Occurrences(link.query, "color") = 2
  /\ Occurrences(urls[2].query, "color") = 1
  /\ ~OwnParametersIntact

\* A listing URL that has `page` already, and one other parameter.
C40_WitnessPageReplaced ==
  /\ Planned /\ Len(urls) >= 2
  /\ Occurrences(link.query, PAGE_PARAM) = 1 /\ Len(link.query) = 2
  /\ OwnParametersIntact

====
